---- MODULE Spec2Model ----
(***************************************************************************)
(* A model of the Resonate backend core: the Conversation Health Monitor   *)
(* (CHM), the Emotional Resonance Score (ERS), the Dynamic Feed Ranking    *)
(* Engine (DFRE), the Resonance Profile Builder's rebuild orchestration    *)
(* (RPB) and the cache adapter they share.                                 *)
(*                                                                         *)
(* Numbers.  The code computes in floating point.  The model uses exact    *)
(* integers: CHM signals are in tenths (0.3 is 3), ERS component scores    *)
(* and depth scores in hundredths (0.85 is 85), times in hours.            *)
(*                                                                         *)
(* Several specifications share the variables; each one leaves the         *)
(* variables of the other subsystems at their idle values:                 *)
(*   SpecState   determineState as a pure function                         *)
(*   SpecCHM     analyzeConversationHealth passes over conversation rows   *)
(*   SpecERS     computeERS with its result cache                          *)
(*   SpecDiv     injectDiversity as a pure function                        *)
(*   SpecFeed    getDiscoveryFeed with the safety sets and the page cache  *)
(*   Spec        rebuildResonanceProfile executions step by step, with     *)
(*               computeERS and getDiscoveryFeed calls between the steps   *)
(***************************************************************************)
EXTENDS Integers, Sequences, FiniteSets, TLC

VARIABLES
    dsIn,       \* SpecState: the arguments of one determineState call
    dsOut,      \* SpecState: its return value, "none" before the call
    conv,       \* CHM: the conversations rows, by conversation id
    chmOut,     \* CHM: what the last analyzeConversationHealth call did
    profiles,   \* the resonance_profiles rows, by user id (None: no row)
    userRows,   \* the users rows, by user id (None: no row)
    cache,      \* the cache store: a function from the keys held to values
    ersOut,     \* ERS: what the last computeERS call did
    divIn,      \* SpecDiv: the arguments of one injectDiversity call
    divOut,     \* SpecDiv: its return value
    blocksReports, \* DFRE: the blocks_reports rows, <<reporterId, reportedId>>
    matches,    \* DFRE: per user, the matched rows read for the ghost penalty
    annResult,  \* DFRE: what the vector index returns for a nearest query
    feedOut,    \* DFRE: what the last getDiscoveryFeed call did
    rb,         \* RPB: the rebuildResonanceProfile executions, by process
    behaviour,  \* RPB: per user, the behavioural data the aggregators read
    vectors,    \* RPB: the vector index, by user id (None: no vector)
    clock,      \* openai.ts: what Date.now() returns, in ticks
    callsThisMinute, \* openai.ts: the module-level call counter
    minuteStart,     \* openai.ts: the module-level start of the window
    callers,    \* openai.ts: the callers of checkRateLimit, by caller
    passes,     \* openai.ts: per tick, how many calls passed checkRateLimit
    redis,      \* cache adapter: the store behind the client, by key
    redisNow,   \* cache adapter: the store's time, in ticks
    cacheOut,   \* cache adapter: what the last call of the adapter did
    lastSet,    \* cache adapter: per key, the last cacheSet and what deleted it
    signalsIn,  \* RPB: the six signal bundles one rebuild aggregated
    signalsOut, \* RPB: what the rebuild derived from them
    chronoIn,   \* ERS: the two peak-hour arrays of one overlap computation
    chronoOut,  \* ERS: what computeChronobiologicalOverlap returned for them
    session,    \* tRPC: the session of the request's context (Null: none)
    rpcDb,      \* tRPC: the users row and the events the procedures work on
    rpcOut,     \* tRPC: what the last call of a procedure did
    batch,      \* CHM: the processAllConversations execution
    voiceIn,    \* RPB: the users row and events aggregateVoiceSignals reads
    voiceOut,   \* RPB: what aggregateVoiceSignals returned for them
    daily,      \* RPB: the rebuildAllProfilesDaily execution
    healthIn,   \* CHM: the five signals one pass computed
    healthOut,  \* CHM: the overallHealth the pass derived from them
    feedRun,    \* DFRE: a getDiscoveryFeed call between its reads and writes
    sched       \* CHM: the 4-hourly schedule of monitorConversations

stateVars == <<dsIn, dsOut>>
chmVars == <<conv, chmOut>>
dbVars == <<profiles, userRows>>
divVars == <<divIn, divOut>>
feedDbVars == <<blocksReports, matches, annResult>>
feedVars == <<blocksReports, matches, annResult, feedOut>>
rpbVars == <<rb, behaviour, vectors>>
rateVars == <<clock, callsThisMinute, minuteStart, callers, passes>>
\* The subsystems outside the matching engine.
adapterVars == <<redis, redisNow, cacheOut, lastSet>>
classifyVars == <<signalsIn, signalsOut>>
chronoVars == <<chronoIn, chronoOut>>
rpcVars == <<session, rpcDb, rpcOut>>
voiceVars == <<voiceIn, voiceOut>>
healthVars == <<healthIn, healthOut>>
lastVars == <<feedRun, sched>>
lateVars == <<voiceVars, daily, healthVars, lastVars>>
restVars ==
    <<rateVars, adapterVars, classifyVars, chronoVars, rpcVars, lateVars>>
moreVars == <<restVars, batch>>
\* The matching engine.
coreVars == <<dsIn, dsOut, conv, chmOut, profiles, userRows, cache, ersOut,
              divIn, divOut, blocksReports, matches, annResult, feedOut,
              rb, behaviour, vectors>>
vars == <<dsIn, dsOut, conv, chmOut, profiles, userRows, cache, ersOut,
          divIn, divOut, blocksReports, matches, annResult, feedOut,
          rb, behaviour, vectors,
          clock, callsThisMinute, minuteStart, callers, passes,
          redis, redisNow, cacheOut, lastSet, signalsIn, signalsOut,
          chronoIn, chronoOut, session, rpcDb, rpcOut, batch,
          voiceIn, voiceOut, daily, healthIn, healthOut, feedRun, sched>>

\* What the actions of one subsystem leave alone, besides what each action
\* names itself.
outsideState == <<chmVars, dbVars, cache, ersOut, divVars, feedVars, rpbVars,
    moreVars>>
\* The passes of the CHM run on their own and inside the batch.
outsideCHM == <<stateVars, dbVars, cache, ersOut, divVars, feedVars, rpbVars,
    restVars>>
outsideERS == <<stateVars, chmVars, divVars, feedVars, rpbVars,
    moreVars>>
outsideDiv == <<stateVars, chmVars, dbVars, cache, ersOut, feedVars, rpbVars,
    moreVars>>
outsideFeed == <<stateVars, chmVars, ersOut, divVars, rpbVars,
    moreVars>>
outsideRPB == <<stateVars, chmVars, ersOut, divVars, feedVars,
    moreVars>>
earlyVars == <<rateVars, adapterVars, classifyVars, chronoVars, rpcVars>>
outsideVoice == <<coreVars, earlyVars, batch, daily, healthVars, lastVars>>
outsideHealth == <<coreVars, earlyVars, batch, voiceVars, daily, lastVars>>
\* The daily pass works on the profiles, the vector index and the cache.
outsideDaily ==
    <<stateVars, chmVars, userRows, ersOut, divVars, feedVars, rb, behaviour,
      earlyVars, batch, voiceVars, healthVars, lastVars>>
outsideRate ==
    <<coreVars, adapterVars, classifyVars, chronoVars, rpcVars, batch,
      lateVars>>
outsideAdapter ==
    <<coreVars, rateVars, classifyVars, chronoVars, rpcVars, batch,
      lateVars>>
outsideClassify ==
    <<coreVars, rateVars, adapterVars, chronoVars, rpcVars, batch,
      lateVars>>
outsideChrono ==
    <<coreVars, rateVars, adapterVars, classifyVars, rpcVars, batch,
      lateVars>>
outsideRpc ==
    <<coreVars, rateVars, adapterVars, classifyVars, chronoVars, batch,
      lateVars>>

Null == "null"
\* A record that stands for "no value" where the values are records.
None == [none |-> TRUE]
\* An absent timestamp, where timestamps are numbers.
NoTime == 0 - 1

\* src/lib/algorithms/dfre.ts:881  (1000 * 60 * 60 * 24) ms, in hours
HoursPerDay == 24

(***************************************************************************)
(* CHM: the state machine                                                  *)
(***************************************************************************)

ConversationState == {"warming", "active", "cooling", "dormant", "revived"}

\* HealthSignals, in tenths.  The trends range over [-1, 1], the ratio and
\* the diversity over [0, 1]; the values chosen sit on, just below and just
\* above the thresholds determineState compares against.
LatencyValues    == {-10, -4, -3, 2, 3}
LengthValues     == {-4, -3, 0, 1}
SentimentValues  == {-3, -2, 0, 1}
InitiativeValues == {2, 3, 5, 6}
DiversityValues  == {0, 3, 5, 10}

HealthSignals ==
    [responseLatencyTrend : LatencyValues,
     messageLengthTrend   : LengthValues,
     sentimentTrajectory  : SentimentValues,
     initiativeRatio      : InitiativeValues,
     topicDiversity       : DiversityValues]

Count(bools) == Cardinality({i \in DOMAIN bools : bools[i]})

negativeCount(signals) ==
    Count(<<signals.responseLatencyTrend < -3,
            signals.messageLengthTrend < -3,
            signals.sentimentTrajectory < -2,
            signals.initiativeRatio < 3,
            signals.topicDiversity < 3>>)

positiveCount(signals) ==
    Count(<<signals.responseLatencyTrend > 2,
            signals.messageLengthTrend > 0,
            signals.sentimentTrajectory > 0,
            signals.initiativeRatio > 5,
            signals.topicDiversity > 5>>)

\* A determineState that looks at the signals before the starvation test.
determineStateSignalsFirst(currentState, signals, hoursSinceLastMessage) ==
    IF negativeCount(signals) >= 2 THEN "cooling"
    ELSE IF positiveCount(signals) >= 3 THEN "active"
    ELSE IF hoursSinceLastMessage >= 3 * HoursPerDay THEN "dormant"
    ELSE IF currentState = "dormant" /\ hoursSinceLastMessage < HoursPerDay
        THEN "revived"
    ELSE IF currentState = "warming"
        THEN (IF positiveCount(signals) >= 2 THEN "active" ELSE "warming")
    ELSE currentState

\* A determineState whose warming conversations wait for three positive
\* signals like the others.
determineStateWarmingWaits(currentState, signals, hoursSinceLastMessage) ==
    IF hoursSinceLastMessage >= 3 * HoursPerDay THEN "dormant"
    ELSE IF currentState = "dormant" /\ hoursSinceLastMessage < HoursPerDay
        THEN "revived"
    ELSE IF negativeCount(signals) >= 2 THEN "cooling"
    ELSE IF positiveCount(signals) >= 3 THEN "active"
    ELSE currentState

\* A determineState that starts a conversation over, as warming, when no
\* signal is positive or negative.
determineStateStartsOver(currentState, signals, hoursSinceLastMessage) ==
    IF hoursSinceLastMessage >= 3 * HoursPerDay THEN "dormant"
    ELSE IF currentState = "dormant" /\ hoursSinceLastMessage < HoursPerDay
        THEN "revived"
    ELSE IF negativeCount(signals) >= 2 THEN "cooling"
    ELSE IF positiveCount(signals) >= 3 THEN "active"
    ELSE IF currentState = "warming"
        THEN (IF positiveCount(signals) >= 2 THEN "active" ELSE "warming")
    ELSE IF positiveCount(signals) = 0 /\ negativeCount(signals) = 0
        THEN "warming"
    ELSE currentState

\* A determineState that revives a dormant conversation whenever its last
\* message is less than three days old.
determineStateRevivesLate(currentState, signals, hoursSinceLastMessage) ==
    IF hoursSinceLastMessage >= 3 * HoursPerDay THEN "dormant"
    ELSE IF currentState = "dormant" THEN "revived"
    ELSE IF negativeCount(signals) >= 2 THEN "cooling"
    ELSE IF positiveCount(signals) >= 3 THEN "active"
    ELSE IF currentState = "warming"
        THEN (IF positiveCount(signals) >= 2 THEN "active" ELSE "warming")
    ELSE currentState

\* determineState(currentState, signals, daysSinceLastMessage); the third
\* argument is given in hours, so "days >= 3" is "hours >= 3 * 24".
determineState(currentState, signals, hoursSinceLastMessage) ==
    IF hoursSinceLastMessage >= 3 * HoursPerDay THEN "dormant"
    ELSE IF currentState = "dormant" /\ hoursSinceLastMessage < HoursPerDay
        THEN "revived"
    ELSE IF negativeCount(signals) >= 2 THEN "cooling"
    ELSE IF positiveCount(signals) >= 3 THEN "active"
    ELSE IF currentState = "warming"
        THEN (IF positiveCount(signals) >= 2 THEN "active" ELSE "warming")
    ELSE currentState

(***************************************************************************)
(* Idle values: what a specification gives the variables it does not use.  *)
(***************************************************************************)

StateIdle == dsIn = None /\ dsOut = "none"
CHMIdle == conv = None /\ chmOut = None
StoreIdle == profiles = None /\ userRows = None /\ cache = None
ERSIdle == ersOut = None
DivIdle == divIn = None /\ divOut = None
FeedIdle ==
    blocksReports = None /\ matches = None /\ annResult = None /\ feedOut = None
RPBIdle == rb = None /\ behaviour = None /\ vectors = None
RateIdle ==
    /\ clock = NoTime /\ callsThisMinute = 0 /\ minuteStart = NoTime
    /\ callers = None /\ passes = None
AdapterIdle ==
    redis = None /\ redisNow = NoTime /\ cacheOut = None /\ lastSet = None
ClassifyIdle == signalsIn = None /\ signalsOut = None
ChronoIdle == chronoIn = None /\ chronoOut = None
RpcIdle == session = None /\ rpcDb = None /\ rpcOut = None
BatchIdle == batch = None
VoiceIdle == voiceIn = None /\ voiceOut = None
DailyIdle == daily = None
HealthIdle == healthIn = None /\ healthOut = None
LastIdle == feedRun = None /\ sched = None
LateIdle == VoiceIdle /\ DailyIdle /\ HealthIdle /\ LastIdle
EarlyIdle ==
    RateIdle /\ AdapterIdle /\ ClassifyIdle /\ ChronoIdle /\ RpcIdle
RestIdle == EarlyIdle /\ LateIdle
MoreIdle == RestIdle /\ BatchIdle
CoreIdle ==
    /\ StateIdle /\ CHMIdle /\ StoreIdle /\ ERSIdle /\ DivIdle /\ FeedIdle
    /\ RPBIdle

(***************************************************************************)
(* SpecState: one determineState call on arguments drawn from the sets     *)
(* above.  999 days is what analyzeConversationHealth passes for a         *)
(* conversation without lastMessageAt.                                     *)
(***************************************************************************)

HoursValues == {0, 23, 24, 71, 72, 96, 999 * HoursPerDay}

StateInit ==
    /\ dsIn \in [currentState : ConversationState,
                 signals : HealthSignals,
                 hours : HoursValues]
    /\ dsOut = "none"
    /\ CHMIdle /\ StoreIdle /\ ERSIdle /\ DivIdle /\ FeedIdle /\ RPBIdle
    /\ MoreIdle

CallDetermineState ==
    /\ dsOut = "none"
    /\ dsOut' = determineState(dsIn.currentState, dsIn.signals, dsIn.hours)
    /\ UNCHANGED <<dsIn, outsideState>>

StateNext == CallDetermineState

SpecState == StateInit /\ [][StateNext]_vars

\* C1: for every previous state and every combination of the five signal
\* values, a call with daysSinceLastMessage >= 3 returns dormant.
C1_StarvationIsDormant ==
    (dsOut # "none" /\ dsIn.hours >= 3 * HoursPerDay) => dsOut = "dormant"

\* A call on a dormant conversation with healthy signals, four days after
\* its last message, has returned.
C1_Witness ==
    /\ dsOut = "dormant"
    /\ dsIn.currentState = "dormant"
    /\ dsIn.hours = 96
    /\ positiveCount(dsIn.signals) >= 3
    /\ negativeCount(dsIn.signals) = 0

\* The counts of the cascade: how many of the five signals (in tenths) meet
\* their negative threshold, and how many their positive one.
cascadeNeg ==
    Cardinality({n \in {"latency", "length", "sentiment", "initiative",
                        "diversity"} :
        \/ n = "latency" /\ dsIn.signals.responseLatencyTrend < 0 - 3
        \/ n = "length" /\ dsIn.signals.messageLengthTrend < 0 - 3
        \/ n = "sentiment" /\ dsIn.signals.sentimentTrajectory < 0 - 2
        \/ n = "initiative" /\ dsIn.signals.initiativeRatio < 3
        \/ n = "diversity" /\ dsIn.signals.topicDiversity < 3})

cascadePos ==
    Cardinality({n \in {"latency", "length", "sentiment", "initiative",
                        "diversity"} :
        \/ n = "latency" /\ dsIn.signals.responseLatencyTrend > 2
        \/ n = "length" /\ dsIn.signals.messageLengthTrend > 0
        \/ n = "sentiment" /\ dsIn.signals.sentimentTrajectory > 0
        \/ n = "initiative" /\ dsIn.signals.initiativeRatio > 5
        \/ n = "diversity" /\ dsIn.signals.topicDiversity > 5})

C22_WitnessOrder ==
    /\ dsOut = "cooling"
    /\ dsIn.currentState = "dormant"
    /\ dsIn.hours = 24
    /\ cascadeNeg >= 2
    /\ cascadePos >= 3

(***************************************************************************)
(* CHM: analyzeConversationHealth                                          *)
(*                                                                         *)
(* A conversations row holds healthState, pendingNudge, nudgeGeneratedAt   *)
(* and lastMessageAt.  The two timestamps are held as the number of hours  *)
(* before now (NoTime: none); Tick lets a day pass.                  *)
(***************************************************************************)

Convs == {"c1"}

\* The longest age the model tells apart, in days (older stays this old).
MaxAgeDays == 8

\* The signal vectors a pass may compute: neutral, two positive, three
\* positive, one negative, two negative, two negative with three positive.
CHMSignals ==
    {[responseLatencyTrend |-> l, messageLengthTrend |-> m,
      sentimentTrajectory |-> s, initiativeRatio |-> i, topicDiversity |-> d] :
        <<l, m, s, i, d>> \in {<<-3, 0, 0, 5, 5>>, <<3, 1, 0, 5, 5>>,
                               <<3, 1, 1, 5, 5>>, <<-4, 0, 0, 5, 5>>,
                               <<-4, -4, 0, 5, 5>>, <<3, 1, 1, 2, 0>>}}

\* What generateCompletion may do: raise, return an empty text, return a
\* question.
Completions == {"failed", "", "question"}

\* How many of the last 10 messages userA and userB sent.
SenderCounts == {<<0, 0>>, <<3, 7>>, <<7, 3>>, <<5, 5>>}

\* src/lib/algorithms/dfre.ts:880-882
daysSinceLastMessage(row) ==
    IF row.lastMessageAt # NoTime THEN row.lastMessageAt ELSE 999 * HoursPerDay

\* A score whose three trends are weighted as they are, in [-1, 1], without
\* the (x + 1) / 2 that brings them to [0, 1].
overallHealthUnshifted(signals) ==
    LET n == 50 * signals.responseLatencyTrend
             + 40 * signals.messageLengthTrend
             + 40 * signals.sentimentTrajectory
             + 40 * signals.initiativeRatio
             + 30 * signals.topicDiversity
    IN  (2 * n + 20) \div 40

\* src/lib/algorithms/dfre.ts:895-901, on signals in tenths:
\* round(N / 20) with N = 25(l+10) + 20(m+10) + 20(s+10) + 40 i + 30 d.
overallHealth(signals) ==
    LET n == 25 * (signals.responseLatencyTrend + 10)
             + 20 * (signals.messageLengthTrend + 10)
             + 20 * (signals.sentimentTrajectory + 10)
             + 40 * signals.initiativeRatio
             + 30 * signals.topicDiversity
    IN  (2 * n + 20) \div 40

identifyQuietParty(counts) ==
    IF counts[1] <= counts[2] THEN "userA" ELSE "userB"

\* generateNudge: the trimmed completion, null when anything inside raised.
generateNudge(completion) ==
    IF completion = "failed" THEN Null ELSE completion

\* The condition under which analyzeConversationHealth generates a nudge.
nudgeWanted(currentState, newState) == newState = "cooling"

\* An update that sets the nudge columns whatever generateNudge returned.
updatedRowNudgeAlways(row, currentState, newState, nudge) ==
    IF newState = currentState THEN row
    ELSE [row EXCEPT !.healthState = newState,
                     !.pendingNudge = nudge,
                     !.nudgeGeneratedAt = 0]

\* An update that every pass makes, whether or not the state changed.
updatedRowEveryPass(row, currentState, newState, nudge) ==
    IF nudge # Null /\ nudge # ""
        THEN [row EXCEPT !.healthState = newState,
                         !.pendingNudge = nudge,
                         !.nudgeGeneratedAt = 0]
    ELSE [row EXCEPT !.healthState = newState]

\* The row analyzeConversationHealth leaves behind.  A nudge that is null or
\* the empty text is falsy and sets nothing.
updatedRow(row, currentState, newState, nudge) ==
    IF newState = currentState THEN row
    ELSE IF nudge # Null /\ nudge # ""
        THEN [row EXCEPT !.healthState = newState,
                         !.pendingNudge = nudge,
                         !.nudgeGeneratedAt = 0]
    ELSE [row EXCEPT !.healthState = newState]

\* One call that reaches its return statement.
AnalyzeConversationHealth(c) ==
    \E signals \in CHMSignals, completion \in Completions,
       counts \in SenderCounts :
        LET row           == conv[c]
            hours         == daysSinceLastMessage(row)
            currentState  == row.healthState
            newState      == determineState(currentState, signals, hours)
            wanted        == nudgeWanted(currentState, newState)
            target        == IF wanted THEN identifyQuietParty(counts)
                             ELSE Null
            nudge         == IF wanted THEN generateNudge(completion)
                             ELSE Null
        IN  /\ conv' = [conv EXCEPT
                            ![c] = updatedRow(row, currentState, newState, nudge)]
            /\ chmOut' = [conversationId |-> c,
                          threw |-> FALSE,
                          currentState |-> currentState,
                          newState |-> newState,
                          hours |-> hours,
                          overallHealth |-> overallHealth(signals),
                          nudgeCalled |-> wanted,
                          completion |-> IF wanted THEN completion ELSE Null,
                          nudge |-> nudge,
                          nudgeTargetUserId |-> target,
                          wrote |-> newState # currentState]
            /\ UNCHANGED outsideCHM

\* One call that raises before it writes: a read of the conversation, the
\* match or the messages fails.
AnalyzeConversationHealthThrows(c) ==
    /\ chmOut' = [conversationId |-> c, threw |-> TRUE,
                  currentState |-> conv[c].healthState, newState |-> Null,
                  hours |-> daysSinceLastMessage(conv[c]),
                  overallHealth |-> 0,
                  nudgeCalled |-> FALSE, completion |-> Null, nudge |-> Null,
                  nudgeTargetUserId |-> Null, wrote |-> FALSE]
    /\ UNCHANGED <<conv, outsideCHM>>

\* A participant sends a message.
NewMessage(c) ==
    /\ conv[c].lastMessageAt # 0
    /\ conv' = [conv EXCEPT ![c].lastMessageAt = 0]
    /\ UNCHANGED <<chmOut, outsideCHM>>

older(t) ==
    IF t = NoTime THEN NoTime
    ELSE IF t + HoursPerDay > MaxAgeDays * HoursPerDay
        THEN MaxAgeDays * HoursPerDay
    ELSE t + HoursPerDay

\* A day passes.
Tick ==
    /\ \E c \in Convs : older(conv[c].lastMessageAt) # conv[c].lastMessageAt
                        \/ older(conv[c].nudgeGeneratedAt) # conv[c].nudgeGeneratedAt
    /\ conv' = [c \in Convs |->
                  [conv[c] EXCEPT !.lastMessageAt = older(@),
                                  !.nudgeGeneratedAt = older(@)]]
    /\ UNCHANGED <<chmOut, outsideCHM>>

\* A new conversation: health state warming (the column's default), no
\* nudge, no message yet.
CHMInit ==
    /\ conv = [c \in Convs |-> [healthState |-> "warming",
                                pendingNudge |-> Null,
                                nudgeGeneratedAt |-> NoTime,
                                lastMessageAt |-> NoTime]]
    /\ chmOut = None
    /\ StateIdle /\ StoreIdle /\ ERSIdle /\ DivIdle /\ FeedIdle /\ RPBIdle
    /\ MoreIdle

CHMNext ==
    \/ \E c \in Convs : AnalyzeConversationHealth(c) /\ UNCHANGED batch
    \/ \E c \in Convs : AnalyzeConversationHealthThrows(c) /\ UNCHANGED batch
    \/ \E c \in Convs : NewMessage(c) /\ UNCHANGED batch
    \/ Tick /\ UNCHANGED batch

SpecCHM == CHMInit /\ [][CHMNext]_vars

\* C36: a conversation whose persisted health state is not warming is not
\* warming after any step: once it has left warming it never returns.
C36_NeverBackToWarming ==
    [][\A c \in Convs :
          conv[c].healthState # "warming"
              => conv'[c].healthState # "warming"]_vars

\* A cooling conversation had a pass, a day after its last message, whose
\* signals would have left a warming conversation warming, and is cooling.
C36_Witness ==
    \E c \in Convs :
        /\ chmOut # None /\ ~chmOut.threw
        /\ chmOut.conversationId = c
        /\ chmOut.currentState = "cooling"
        /\ chmOut.newState = "cooling"
        /\ chmOut.hours = HoursPerDay
        /\ chmOut.overallHealth = 46
        /\ conv[c].healthState = "cooling"

\* C37: a conversation's persisted health state changes to revived only
\* from dormant, and only in a pass of that conversation that returned and
\* found its last message less than a day old.
C37_RevivedOnlyFromDormant ==
    [][\A c \in Convs :
          (conv'[c].healthState = "revived" /\ conv[c].healthState # "revived")
          => /\ conv[c].healthState = "dormant"
             /\ chmOut'.conversationId = c
             /\ ~chmOut'.threw
             /\ chmOut'.currentState = "dormant"
             /\ chmOut'.hours < HoursPerDay]_vars

\* A dormant conversation with a new message was revived by its pass.
C37_Witness ==
    \E c \in Convs :
        /\ chmOut # None /\ ~chmOut.threw
        /\ chmOut.conversationId = c
        /\ chmOut.currentState = "dormant"
        /\ chmOut.newState = "revived"
        /\ chmOut.hours = 0
        /\ chmOut.wrote
        /\ conv[c].healthState = "revived"

\* A dormant conversation whose last message is a day old had a pass and
\* stays dormant.
C37_WitnessDayOld ==
    \E c \in Convs :
        /\ chmOut # None /\ ~chmOut.threw
        /\ chmOut.conversationId = c
        /\ chmOut.currentState = "dormant"
        /\ chmOut.hours = HoursPerDay
        /\ chmOut.newState # "revived"
        /\ conv[c].healthState # "revived"

\* C7: a pass generates a nudge only when the conversation moves into
\* cooling: the new state is cooling and the previous state was not.
C7_NudgeOnlyOnTransition ==
    (chmOut # None /\ chmOut.nudgeCalled) =>
        (chmOut.newState = "cooling" /\ chmOut.currentState # "cooling")

\* C23: a pass of analyzeConversationHealth that returns writes the
\* conversation row exactly when the new state differs from the previous
\* one; the write sets healthState to the new state, and pendingNudge and
\* nudgeGeneratedAt only if a nudge was produced; with the state unchanged
\* the row is left as it was.
C23_WritesExactlyOnStateChange ==
    [][(chmOut' # chmOut /\ ~chmOut'.threw)
        => LET c == chmOut'.conversationId
               before == conv[c]
               after == conv'[c]
               newState == chmOut'.newState
               produced == chmOut'.nudge # Null /\ chmOut'.nudge # ""
           IN  /\ chmOut'.wrote <=> newState # before.healthState
               /\ newState = before.healthState => after = before
               /\ newState # before.healthState =>
                     /\ after.healthState = newState
                     /\ after.lastMessageAt = before.lastMessageAt
                     /\ IF produced
                        THEN /\ after.pendingNudge = chmOut'.nudge
                             /\ after.nudgeGeneratedAt = 0
                        ELSE /\ after.pendingNudge = before.pendingNudge
                             /\ after.nudgeGeneratedAt
                                   = before.nudgeGeneratedAt
               /\ \A other \in Convs \ {c} : conv'[other] = conv[other]]_vars

\* A pass on a cooling conversation that stays cooling produced a nudge
\* and left the row, which holds no nudge, as it was.
C23_Witness ==
    /\ chmOut # None
    /\ ~chmOut.threw
    /\ chmOut.currentState = "cooling"
    /\ chmOut.newState = "cooling"
    /\ chmOut.nudge = "question"
    /\ ~chmOut.wrote
    /\ conv[chmOut.conversationId].pendingNudge = Null

\* A pass that changed the state to cooling stored the nudge it produced.
C23_WitnessWrite ==
    /\ chmOut # None
    /\ ~chmOut.threw
    /\ chmOut.wrote
    /\ chmOut.newState = "cooling"
    /\ chmOut.nudge = "question"
    /\ conv[chmOut.conversationId].healthState = "cooling"
    /\ conv[chmOut.conversationId].pendingNudge = "question"
    /\ conv[chmOut.conversationId].nudgeGeneratedAt = 0

\* C14: a pass that moves the conversation into cooling and whose nudge
\* generation failed (the completion request or a read inside generateNudge
\* raised) writes the state cooling on the row, returns no nudge and leaves
\* pendingNudge and nudgeGeneratedAt as they were.
C14_NudgeFailureKeepsTransition ==
    [][\A c \in Convs :
          (/\ chmOut' # chmOut
           /\ chmOut'.conversationId = c /\ ~chmOut'.threw
           /\ chmOut'.newState = "cooling" /\ chmOut'.currentState # "cooling"
           /\ chmOut'.nudgeCalled /\ chmOut'.completion = "failed")
          => /\ conv'[c].healthState = "cooling"
             /\ chmOut'.wrote
             /\ chmOut'.nudge = Null
             /\ conv'[c].pendingNudge = conv[c].pendingNudge
             /\ conv'[c].nudgeGeneratedAt = conv[c].nudgeGeneratedAt]_vars

\* A conversation that holds an earlier nudge has moved into cooling again
\* with a failed nudge generation: the row is cooling, the earlier nudge and
\* its time are still there.
C14_Witness ==
    /\ chmOut # None /\ ~chmOut.threw
    /\ chmOut.newState = "cooling" /\ chmOut.currentState # "cooling"
    /\ chmOut.completion = "failed" /\ chmOut.nudge = Null /\ chmOut.wrote
    /\ conv[chmOut.conversationId].healthState = "cooling"
    /\ conv[chmOut.conversationId].pendingNudge = "question"
    /\ conv[chmOut.conversationId].nudgeGeneratedAt > 0

(***************************************************************************)
(* Exact fractions <<numerator, denominator>>, denominator positive.       *)
(***************************************************************************)

RECURSIVE GCD(_, _)
GCD(a, b) == IF b = 0 THEN a ELSE GCD(b, a % b)

Abs(x) == IF x < 0 THEN 0 - x ELSE x
Min2(a, b) == IF a <= b THEN a ELSE b
Max2(a, b) == IF a >= b THEN a ELSE b

Frac(n, d) == LET g == GCD(Abs(n), d) IN <<n \div g, d \div g>>
FracMul(x, y) == Frac(x[1] * y[1], x[2] * y[2])
FracAdd(x, y) == Frac(x[1] * y[2] + y[1] * x[2], x[2] * y[2])
FracLeq(x, y) == x[1] * y[2] <= y[1] * x[2]
FracMax(x, y) == IF FracLeq(x, y) THEN y ELSE x
FracMin(x, y) == IF FracLeq(x, y) THEN x ELSE y

\* A rounding that drops the fraction.
RoundDown(x) == x[1] \div x[2]

\* Math.round: the nearest integer, halves upwards.
Round(x) == (2 * x[1] + x[2]) \div (2 * x[2])

(***************************************************************************)
(* The cache adapter.  A key is what cacheKey builds,                      *)
(* resonate:{entity}:{id}:{dataType}; the id is held as its ":"-separated  *)
(* segments (one user id, or the two of an ERS pair) and the page number   *)
(* of a feed_page_{n} data type apart (NoPage: the data type has none).    *)
(***************************************************************************)

NoPage == 0 - 1

cacheKey(entity, id, dataType, page) ==
    [entity |-> entity, id |-> id, dataType |-> dataType, page |-> page]

\* The segments of the key's text between the colons, before the data type.
keyPrefix(key) == <<"resonate", key.entity>> \o key.id

isPrefix(p, q) == Len(p) <= Len(q) /\ SubSeq(q, 1, Len(p)) = p

\* Whether the key matches the pattern resonate:user:{userId}:*
matchesUserPattern(userId, key) ==
    isPrefix(<<"resonate", "user", userId>>, keyPrefix(key) )

cacheHas(key) == key \in DOMAIN cache

cacheSet(store, key, value) ==
    [k \in DOMAIN store \cup {key} |-> IF k = key THEN value ELSE store[k]]

cacheDel(store, keys) == [k \in DOMAIN store \ keys |-> store[k]]

\* cacheInvalidatePattern("resonate:user:{userId}:*"): scan, delete matches.
cacheInvalidatePattern(store, userId) ==
    cacheDel(store, {k \in DOMAIN store : matchesUserPattern(userId, k)})

EmptyCache == [k \in {} |-> None]

(***************************************************************************)
(* ERS: the five components, in hundredths                                 *)
(***************************************************************************)

EnergyArchetype == {"spark", "anchor", "wave", "ember", "storm"}
CommunicationStyle == {"expressive", "precise", "poetic", "minimal", "witty"}

\* src/unnamed/part_012:117-123, in hundredths
COMMUNICATION_COMPATIBILITY ==
    [expressive |-> [expressive |-> 70, precise |-> 50, poetic |-> 90,
                     minimal |-> 30, witty |-> 80],
     precise    |-> [expressive |-> 50, precise |-> 80, poetic |-> 60,
                     minimal |-> 70, witty |-> 60],
     poetic     |-> [expressive |-> 90, precise |-> 60, poetic |-> 85,
                     minimal |-> 30, witty |-> 70],
     minimal    |-> [expressive |-> 30, precise |-> 70, poetic |-> 30,
                     minimal |-> 60, witty |-> 50],
     witty      |-> [expressive |-> 80, precise |-> 60, poetic |-> 70,
                     minimal |-> 50, witty |-> 90]]

\* src/unnamed/part_012:147-153, in hundredths
ARCHETYPE_AFFINITY ==
    [spark  |-> [spark |-> 60, anchor |-> 90, wave |-> 70, ember |-> 65,
                 storm |-> 50],
     anchor |-> [spark |-> 90, anchor |-> 70, wave |-> 80, ember |-> 85,
                 storm |-> 60],
     wave   |-> [spark |-> 70, anchor |-> 80, wave |-> 85, ember |-> 75,
                 storm |-> 55],
     ember  |-> [spark |-> 65, anchor |-> 85, wave |-> 75, ember |-> 70,
                 storm |-> 50],
     storm  |-> [spark |-> 50, anchor |-> 60, wave |-> 55, ember |-> 50,
                 storm |-> 40]]

\* The 24-slot array built from the windows: a later entry for an hour
\* overwrites an earlier one.
slot(peak, hour) ==
    LET at == {i \in DOMAIN peak : peak[i].hour = hour}
    IN  IF at = {} THEN 0
        ELSE peak[CHOOSE i \in at : \A j \in at : j <= i].score

\* The hours at which either array can hold anything but its fill of 0;
\* at every other hour both min and max are 0 and add nothing to the sums.
\* The loop reads the slots 0 to 23 only.
hoursSet(peakA, peakB) ==
    ({peakA[i].hour : i \in DOMAIN peakA}
        \cup {peakB[i].hour : i \in DOMAIN peakB}) \cap (0..23)

RECURSIVE overlapSum(_, _, _)
overlapSum(peakA, peakB, hours) ==
    IF hours = {} THEN 0
    ELSE LET i == CHOOSE h \in hours : TRUE
         IN  Min2(slot(peakA, i), slot(peakB, i))
             + overlapSum(peakA, peakB, hours \ {i})

RECURSIVE maxSum(_, _, _)
maxSum(peakA, peakB, hours) ==
    IF hours = {} THEN 0
    ELSE LET i == CHOOSE h \in hours : TRUE
         IN  Max2(slot(peakA, i), slot(peakB, i))
             + maxSum(peakA, peakB, hours \ {i})

\* The overlap without the neutral value for an unknown array.
computeChronobiologicalOverlapNoNeutral(peakA, peakB) ==
    IF maxSum(peakA, peakB, hoursSet(peakA, peakB)) = 0 THEN <<0, 1>>
    ELSE Frac(overlapSum(peakA, peakB, hoursSet(peakA, peakB)),
              maxSum(peakA, peakB, hoursSet(peakA, peakB)))

\* overlapSum / maxSum as a fraction, 0.5 when maxSum is 0 or an array is
\* empty; slot scores are in tenths.
computeChronobiologicalOverlap(peakA, peakB) ==
    IF Len(peakA) = 0 \/ Len(peakB) = 0 THEN <<1, 2>>
    ELSE IF maxSum(peakA, peakB, hoursSet(peakA, peakB)) = 0 THEN <<1, 2>>
    ELSE Frac(overlapSum(peakA, peakB, hoursSet(peakA, peakB)),
              maxSum(peakA, peakB, hoursSet(peakA, peakB)))

\* A style matrix whose precise row differs from its precise column.
computeCommunicationCompatibilitySkewed(styleA, styleB) ==
    IF styleA = Null \/ styleB = Null THEN 50
    ELSE IF styleA = "precise" /\ styleB = "minimal" THEN 75
    ELSE COMMUNICATION_COMPATIBILITY[styleA][styleB]

computeCommunicationCompatibility(styleA, styleB) ==
    IF styleA = Null \/ styleB = Null THEN 50
    ELSE COMMUNICATION_COMPATIBILITY[styleA][styleB]

computeDepthDifferential(depthA, depthB) ==
    Max2(0, 100 - Abs(depthA - depthB) * 2)

computeArchetypeComplementarity(archA, archB) ==
    IF archA = Null \/ archB = Null THEN 50
    ELSE ARCHETYPE_AFFINITY[archA][archB]

(***************************************************************************)
(* ERS: the modifiers, as fractions.  A user's location is held as a       *)
(* position in km along one meridian (NoLocation: latitude or longitude    *)
(* null or 0), so that the Haversine distance is the difference of the     *)
(* positions; lastActiveAt is held as hours before now.                    *)
(***************************************************************************)

NoLocation == 0 - 1

computeGeographicModifier(userA, userB) ==
    IF userA.location = NoLocation \/ userB.location = NoLocation
        THEN <<1, 1>>
    ELSE LET dist == Abs(userB.location - userA.location)
         IN  IF dist <= 50 THEN <<1, 1>>
             ELSE IF dist <= 200 THEN Frac(9500 - (dist - 50) * 5, 10000)
             ELSE FracMax(<<7, 10>>, Frac(9500 - (dist - 50) * 5, 10000))

computeRecencyDecay(userA, userB) ==
    LET maxHours == Max2(userA.lastActiveAt, userB.lastActiveAt)
    IN  IF maxHours <= 3 * HoursPerDay THEN <<1, 1>>
        ELSE IF maxHours <= 7 * HoursPerDay
            THEN Frac(20 * HoursPerDay - (maxHours - 3 * HoursPerDay),
                      20 * HoursPerDay)
        ELSE FracMax(<<6, 10>>,
                     Frac(80 * HoursPerDay - 3 * (maxHours - 7 * HoursPerDay),
                          100 * HoursPerDay))

computeCompletenessModifier(profileA, profileB) ==
    IF profileA.energyArchetype = Null \/ profileB.energyArchetype = Null
        THEN <<1, 2>>
    ELSE <<1, 1>>

(***************************************************************************)
(* ERS: computeERS                                                         *)
(***************************************************************************)

\* vectorSimOverride absent
NoSim == 0 - 999

ersCacheKey(userAId, userBId) ==
    cacheKey("ers", <<Min2(userAId, userBId), Max2(userAId, userBId)>>,
             "score", NoPage)

\* The weighted base score as a fraction of a point: the components are in
\* hundredths and the chronobiological overlap is the fraction chrono.
baseScore(vectorSim, chrono, commCompat, depthDiff, archCompat) ==
    Frac(chrono[2] * (vectorSim * 30 + commCompat * 20 + depthDiff * 15
                      + archCompat * 20)
         + chrono[1] * 100 * 15,
         chrono[2] * 100)

\* A final score without the clamp to [0, 100].
finalScoreUnclamped(base, geographic, recencyDecay, completeness) ==
    Round(FracMul(FracMul(FracMul(base, geographic), recencyDecay),
                  completeness))

\* round(min(100, max(0, base * geographic * recency * completeness * 1.0)))
finalScore(base, geographic, recencyDecay, completeness) ==
    Round(FracMin(<<100, 1>>, FracMax(<<0, 1>>,
          FracMul(FracMul(FracMul(base, geographic), recencyDecay),
                  completeness))))

Raised == [raised |-> TRUE, totalScore |-> 0, vectorSimilarity |-> 0,
           modifiers |-> None, waveformOf |-> <<0, 0>>]

\* computeERS past its cache lookup: src/unnamed/part_012:319-414.
\* waveformOf names the users whose profiles shaped userAFrequencies and
\* userBFrequencies.
computeERSUncached(userAId, userBId, vectorSimOverride) ==
    IF profiles[userAId] = None \/ profiles[userBId] = None THEN Raised
    ELSE IF userRows[userAId] = None \/ userRows[userBId] = None THEN Raised
    ELSE
      LET profileA == profiles[userAId]
          profileB == profiles[userBId]
          userA == userRows[userAId]
          userB == userRows[userBId]
          vectorSim == IF vectorSimOverride = NoSim THEN 50
                       ELSE vectorSimOverride
          chrono == computeChronobiologicalOverlap(
                        profileA.peakActivityWindows,
                        profileB.peakActivityWindows)
          commCompat == computeCommunicationCompatibility(
                            profileA.communicationStyle,
                            profileB.communicationStyle)
          depthDiff == computeDepthDifferential(profileA.depthSeekerScore,
                                                profileB.depthSeekerScore)
          archCompat == computeArchetypeComplementarity(
                            profileA.energyArchetype, profileB.energyArchetype)
          base == baseScore(vectorSim, chrono, commCompat, depthDiff,
                            archCompat)
      IN  [raised |-> FALSE,
           totalScore |-> finalScore(base,
                                     computeGeographicModifier(userA, userB),
                                     computeRecencyDecay(userA, userB),
                                     computeCompletenessModifier(profileA,
                                                                 profileB)),
           vectorSimilarity |-> vectorSim,
           modifiers |->
              [geographic |-> computeGeographicModifier(userA, userB),
               recencyDecay |-> computeRecencyDecay(userA, userB),
               completeness |-> computeCompletenessModifier(profileA,
                                                            profileB),
               mutualInterest |-> <<1, 1>>],
           waveformOf |-> <<userAId, userBId>>]

\* computeERS against the cache `store`: the result and the store it leaves.
computeERS(store, userAId, userBId, vectorSimOverride) ==
    LET key == ersCacheKey(userAId, userBId)
    IN  IF key \in DOMAIN store
            THEN [result |-> store[key], hit |-> TRUE, store |-> store]
        ELSE LET r == computeERSUncached(userAId, userBId, vectorSimOverride)
             IN  [result |-> r, hit |-> FALSE,
                  store |-> IF r.raised THEN store ELSE cacheSet(store, key, r)]

rowsMissing(userAId, userBId) ==
    \/ profiles[userAId] = None \/ profiles[userBId] = None
    \/ userRows[userAId] = None \/ userRows[userBId] = None

ComputeERS(userAId, userBId, vectorSimOverride) ==
    \E call \in {computeERS(cache, userAId, userBId, vectorSimOverride)} :
        /\ cache' = call.store
        /\ ersOut' = [userAId |-> userAId, userBId |-> userBId,
                      raised |-> call.result.raised,
                      hit |-> call.hit,
                      totalScore |-> call.result.totalScore,
                      vectorSimilarity |-> call.result.vectorSimilarity,
                      modifiers |-> call.result.modifiers,
                      waveformOf |-> call.result.waveformOf,
                      rowsMissing |-> rowsMissing(userAId, userBId)]
        /\ UNCHANGED <<dbVars, outsideERS>>

\* The account is deleted: the users row goes, and with it (ON DELETE
\* CASCADE) the user's resonance_profiles row.  Nothing touches the cache.
DeleteUser(userId) ==
    /\ userRows[userId] # None
    /\ userRows' = [userRows EXCEPT ![userId] = None]
    /\ profiles' = [profiles EXCEPT ![userId] = None]
    /\ UNCHANGED <<cache, ersOut, outsideERS>>

\* The TTL of a cache entry runs out.
CacheExpire(key) ==
    /\ key \in DOMAIN cache
    /\ cache' = cacheDel(cache, {key})
    /\ UNCHANGED <<dbVars, ersOut, outsideERS>>

(***************************************************************************)
(* SpecERS: two users whose rows are drawn from the templates below, and   *)
(* computeERS calls on them in both argument orders.                       *)
(***************************************************************************)

ArchetypeList == <<"spark", "anchor", "wave", "ember", "storm", Null>>
StyleList == <<"expressive", "precise", "poetic", "minimal", "witty", Null>>

\* Template (i, 0): archetype i with the style of the same rank, depth 0.8,
\* activity at hours 2 and 14.  Template (i, 1): archetype i with the style
\* two ranks on, depth 0.3 to 0.5, and one of four other activity arrays
\* (none, one all-zero slot, hour 14 only, hour 2 only).
ProfileTemplate(i, k) ==
    [energyArchetype |-> ArchetypeList[i],
     communicationStyle |-> StyleList[((i - 1 + 2 * k) % 6) + 1],
     depthSeekerScore |-> IF k = 0 THEN 80 ELSE 30 + 10 * (i % 3),
     peakActivityWindows |->
        IF k = 0 THEN <<[hour |-> 2, score |-> 10], [hour |-> 14, score |-> 5]>>
        ELSE IF i = 6 THEN <<>>
        ELSE IF i = 5 THEN <<[hour |-> 2, score |-> 0]>>
        ELSE IF i % 2 = 1 THEN <<[hour |-> 14, score |-> 10]>>
        ELSE <<[hour |-> 2, score |-> 1]>>]

TemplateIds == (1..6) \X {0, 1}

\* same place and active an hour ago; 100 km on and active 5 days ago;
\* 700 km on and active 400 hours ago; no location.
UserTemplates ==
    <<[location |-> 1000, lastActiveAt |-> 1],
      [location |-> 1100, lastActiveAt |-> 5 * HoursPerDay],
      [location |-> 1700, lastActiveAt |-> 400],
      [location |-> NoLocation, lastActiveAt |-> 1]>>

SimValues == {NoSim, 0 - 300, 0 - 100, 95, 150}

ERSUsers == {1, 2}

TemplateRank(t) == 2 * t[1] + t[2]

ERSInit ==
    /\ \E ta \in TemplateIds, tb \in TemplateIds :
          /\ TemplateRank(ta) <= TemplateRank(tb)
          /\ profiles = <<ProfileTemplate(ta[1], ta[2]),
                          ProfileTemplate(tb[1], tb[2])>>
    /\ \E ua \in DOMAIN UserTemplates, ub \in DOMAIN UserTemplates :
          /\ ua <= ub
          /\ userRows = <<UserTemplates[ua], UserTemplates[ub]>>
    /\ cache = EmptyCache
    /\ ersOut = None
    /\ StateIdle /\ CHMIdle /\ DivIdle /\ FeedIdle /\ RPBIdle
    /\ MoreIdle

ERSNext ==
    \/ \E a \in ERSUsers, b \in ERSUsers, s \in SimValues :
          a # b /\ ComputeERS(a, b, s)
    \/ \E u \in ERSUsers : DeleteUser(u)
    \/ \E k \in DOMAIN cache : CacheExpire(k)

SpecERS == ERSInit /\ [][ERSNext]_vars

\* C8: whenever a computeERS call finds, at the time of the call, a profile
\* row or a users row of either user missing, the call raises -- whatever
\* computeERS calls on the pair came before it.
C8_RaisesWhenRowMissing ==
    (ersOut # None /\ ersOut.rowsMissing) => ersOut.raised

\* C9: the totalScore of every computeERS call that returns, and of every
\* computation computeERS could make on the rows as they are, for every
\* vector-similarity override, is an integer from 0 to 100.
C9_TotalScoreInRange ==
    /\ (ersOut # None /\ ~ersOut.raised) => ersOut.totalScore \in 0..100
    /\ \A s \in SimValues :
          \A r \in {computeERSUncached(1, 2, s)} :
              ~r.raised => r.totalScore \in 0..100

\* A call that computed a score from an override of 1.5 and returned the
\* upper end of the range.
C9_Witness ==
    /\ ersOut # None
    /\ ~ersOut.raised /\ ~ersOut.hit
    /\ ersOut.totalScore = 100
    /\ computeERSUncached(ersOut.userAId, ersOut.userBId, 150).totalScore = 100
    /\ computeERSUncached(ersOut.userAId, ersOut.userBId, 0 - 300).totalScore = 0

\* C10: with the same vector-similarity input, computeERS(A, B) and
\* computeERS(B, A) give the same totalScore (and raise together), both
\* when they compute it and when they are called on the cache as it is.
C10_Symmetric ==
    \A s \in SimValues :
        /\ \A ab \in {computeERSUncached(1, 2, s)},
              ba \in {computeERSUncached(2, 1, s)} :
               /\ ab.raised = ba.raised
               /\ ab.totalScore = ba.totalScore
        /\ \A ab \in {computeERS(cache, 1, 2, s)},
              ba \in {computeERS(cache, 2, 1, s)} :
               /\ ab.result.raised = ba.result.raised
               /\ ab.result.totalScore = ba.result.totalScore
               /\ ab.hit = ba.hit

\* A computed (not cached) score, strictly inside the range, of two users
\* who differ in archetype, style, depth, activity, place and recency.
C10_Witness ==
    /\ ersOut # None
    /\ ~ersOut.raised /\ ~ersOut.hit
    /\ ersOut.totalScore \in 1..99
    /\ ~rowsMissing(1, 2)
    /\ profiles[1].energyArchetype # Null /\ profiles[2].energyArchetype # Null
    /\ profiles[1].energyArchetype # profiles[2].energyArchetype
    /\ profiles[1].communicationStyle # Null
    /\ profiles[2].communicationStyle # Null
    /\ profiles[1].communicationStyle # profiles[2].communicationStyle
    /\ profiles[1].depthSeekerScore # profiles[2].depthSeekerScore
    /\ profiles[1].peakActivityWindows # profiles[2].peakActivityWindows
    /\ userRows[1] # userRows[2]

\* C35: while the rows of both users are there, as they were when the
\* cache was filled, computeERS(a, b, s) called on the cache as it is
\* returns what it would compute: the totalScore for s, and a waveform whose
\* userAFrequencies are those of a.
\* The code does not do this: the key holds the sorted ids alone, so a hit
\* returns the result of the earlier call, whatever its override and its
\* argument order were.
C35_CacheTransparent ==
    \A a \in ERSUsers, b \in ERSUsers, s \in SimValues :
        (a # b /\ ~rowsMissing(a, b))
        => \A call \in {computeERS(cache, a, b, s)},
              fresh \in {computeERSUncached(a, b, s)} :
               /\ call.result.totalScore = fresh.totalScore
               /\ call.result.waveformOf = <<a, b>>

\* The last call was a hit on an entry the call in the other argument
\* order had written: its userAFrequencies are those of its second
\* argument.
C35_WaveformReversed ==
    /\ ersOut # None /\ ersOut.hit /\ ~ersOut.raised
    /\ ~rowsMissing(1, 2)
    /\ ersOut.waveformOf = <<ersOut.userBId, ersOut.userAId>>

\* The cache holds the score computed for an override of -3.0; a call with
\* an override of 1.5 returns it, where it would compute another score.
C35_ScoreOfOtherOverride ==
    /\ ~rowsMissing(1, 2)
    /\ ersCacheKey(1, 2) \in DOMAIN cache
    /\ cache[ersCacheKey(1, 2)].vectorSimilarity = 0 - 300
    /\ computeERS(cache, 1, 2, 150).hit
    /\ computeERS(cache, 1, 2, 150).result.totalScore
          # computeERSUncached(1, 2, 150).totalScore

\* The profiles and users of C18: both wave and poetic, the same depth, the
\* same activity windows with a positive slot, the same place, both active
\* within the last 3 days.
resonantPair ==
    /\ \A u \in ERSUsers :
          /\ profiles[u] # None /\ userRows[u] # None
          /\ profiles[u].energyArchetype = "wave"
          /\ profiles[u].communicationStyle = "poetic"
          /\ userRows[u].location # NoLocation
          /\ userRows[u].lastActiveAt <= 3 * HoursPerDay
    /\ profiles[1].depthSeekerScore = profiles[2].depthSeekerScore
    /\ profiles[1].peakActivityWindows = profiles[2].peakActivityWindows
    /\ \E i \in DOMAIN profiles[1].peakActivityWindows :
          profiles[1].peakActivityWindows[i].score > 0
    /\ userRows[1].location = userRows[2].location

\* C18: computeERS on such a pair with vector similarity 0.95, computed
\* rather than taken from the cache, has all four modifiers at 1.0 and the
\* total score 93 (92.5 rounded).
C18_ResonantPairScores93 ==
    (/\ ersOut # None /\ ~ersOut.raised /\ ~ersOut.hit
     /\ ersOut.vectorSimilarity = 95
     /\ resonantPair)
    => /\ ersOut.totalScore = 93
       /\ \A m \in DOMAIN ersOut.modifiers : ersOut.modifiers[m] = <<1, 1>>

C18_Witness ==
    /\ ersOut # None /\ ~ersOut.raised /\ ~ersOut.hit
    /\ ersOut.vectorSimilarity = 95
    /\ resonantPair
    /\ ersOut.totalScore = 93

(***************************************************************************)
(* DFRE stage 4: injectDiversity.  A feed candidate is a record with a     *)
(* userId, an archetype (Null: none) and a finalScore (a fraction).        *)
(***************************************************************************)

\* candidates.slice(from, to), 0-based and end-exclusive as in the code
slice(seq, from, to) == SubSeq(seq, from + 1, Min2(to, Len(seq)))

\* c.archetype ?? "unknown"
archKey(c) == IF c.archetype = Null THEN "unknown" ELSE c.archetype

archetypeCount(top, key) ==
    Cardinality({i \in DOMAIN top : archKey(top[i]) = key})

firstAt(top, key) ==
    CHOOSE i \in DOMAIN top :
        archKey(top[i]) = key /\ \A j \in 1..(i - 1) : archKey(top[j]) # key

\* The first entry of the counts sorted by count, descending: the sort is
\* stable and the map lists the archetypes in order of first appearance.
dominantOf(top) ==
    CHOOSE k \in {archKey(top[i]) : i \in DOMAIN top} :
        \A k2 \in {archKey(top[i]) : i \in DOMAIN top} :
            \/ archetypeCount(top, k) > archetypeCount(top, k2)
            \/ /\ archetypeCount(top, k) = archetypeCount(top, k2)
               /\ firstAt(top, k) <= firstAt(top, k2)

\* Math.ceil(limit * 0.2)
diversityTargetOf(limit) == (limit + 4) \div 5

\* The indices of top, lowest finalScore first; equal scores keep the order
\* of top (the sort is stable).
RECURSIVE lowestFirst(_, _)
lowestFirst(top, indices) ==
    IF indices = {} THEN <<>>
    ELSE LET i == CHOOSE x \in indices : \A y \in indices :
                      \/ ~FracLeq(top[y].finalScore, top[x].finalScore)
                      \/ /\ FracLeq(top[x].finalScore, top[y].finalScore)
                         /\ x <= y
         IN  <<i>> \o lowestFirst(top, indices \ {i})

injectDiversity(candidates, limit) ==
    LET top == slice(candidates, 0, limit)
    IN  IF Len(top) < 10 THEN top
        ELSE
          LET dominantArchetype == dominantOf(top)
              dominantCount == archetypeCount(top, dominantArchetype)
              diverseCount == Len(top) - dominantCount
              diversityTarget == diversityTargetOf(limit)
          IN  IF diverseCount >= diversityTarget THEN top
              ELSE
                LET overflow == slice(candidates, limit, Len(candidates))
                    differentArchetypes ==
                        SelectSeq(overflow,
                                  LAMBDA c : c.archetype # dominantArchetype
                                             /\ c.archetype # Null)
                    needed == diversityTarget - diverseCount
                    sameSorted ==
                        lowestFirst(top, {i \in DOMAIN top :
                                           top[i].archetype = dominantArchetype})
                    n == Min2(needed, Min2(Len(sameSorted),
                                           Len(differentArchetypes)))
                IN  [idx \in DOMAIN top |->
                        IF \E i \in 1..n : sameSorted[i] = idx
                            THEN differentArchetypes[
                                     CHOOSE i \in 1..n : sameSorted[i] = idx]
                        ELSE top[idx]]

(***************************************************************************)
(* SpecDiv: injectDiversity on page slices drawn from the family below.    *)
(* A slice has n entries in descending finalScore order (or all with the   *)
(* same finalScore); the first `limit` are the page.  The page holds the   *)
(* dominant archetype except for topOthers entries from its second place   *)
(* on; the overflow starts with overflowOthers entries that alternate      *)
(* between spark and anchor and holds the dominant archetype after them.   *)
(***************************************************************************)

DivLimits == {5, 10, 12}
MaxOthers == 3

sliceArchetype(i, limit, dominant, topOthers, topOther, overflowOthers) ==
    IF i <= limit
        THEN IF i >= 2 /\ i <= topOthers + 1 THEN topOther ELSE dominant
    ELSE IF i - limit <= overflowOthers
        THEN IF (i - limit) % 2 = 1 THEN "spark" ELSE "anchor"
    ELSE dominant

DivSlice(n, limit, dominant, topOthers, topOther, overflowOthers, tied) ==
    [i \in 1..n |->
        [userId |-> i,
         archetype |-> sliceArchetype(i, limit, dominant, topOthers, topOther,
                                      overflowOthers),
         finalScore |-> IF tied THEN <<1, 2>> ELSE <<100 - i, 100>>]]

DivInit ==
    /\ \E limit \in DivLimits,
          extra \in {0 - 1, 0, 2, 10},
          dominant \in {"wave", Null},
          topOthers \in 0..MaxOthers,
          topOther \in {"ember", Null},
          overflowOthers \in 0..MaxOthers,
          tied \in BOOLEAN :
          divIn = [candidates |-> DivSlice(limit + extra, limit, dominant,
                                           topOthers, topOther, overflowOthers,
                                           tied),
                   limit |-> limit]
    /\ divOut = None
    /\ StateIdle /\ CHMIdle /\ StoreIdle /\ ERSIdle /\ FeedIdle /\ RPBIdle
    /\ MoreIdle

CallInjectDiversity ==
    /\ divOut = None
    /\ divOut' = [page |-> injectDiversity(divIn.candidates, divIn.limit)]
    /\ UNCHANGED <<divIn, outsideDiv>>

DivNext == CallInjectDiversity

SpecDiv == DivInit /\ [][DivNext]_vars

\* The largest number of entries of the page that share one archetype
mostShared(page) ==
    IF \A i \in DOMAIN page : page[i].archetype = Null THEN 0
    ELSE LET archetypes == {page[i].archetype : i \in DOMAIN page} \ {Null}
             count(a) == Cardinality({i \in DOMAIN page : page[i].archetype = a})
         IN  CHOOSE m \in {count(a) : a \in archetypes} :
                 \A a \in archetypes : count(a) <= m

\* The overflow part of the slice holds as many candidates of an archetype
\* other than the page's dominant one as the page lacks.
enoughInOverflow(candidates, limit) ==
    LET top == slice(candidates, 0, limit)
        dominant == dominantOf(top)
        diverse == Len(top) - archetypeCount(top, dominant)
    IN  /\ Len(candidates) > limit
        /\ Cardinality({i \in (limit + 1)..Len(candidates) :
                           /\ candidates[i].archetype # Null
                           /\ candidates[i].archetype # dominant})
              >= diversityTargetOf(limit) - diverse

\* C6: for every page slice of at least 10 candidates whose overflow part
\* holds enough candidates of other archetypes, at most ceil(0.8 * limit)
\* entries of the page injectDiversity returns share one archetype.
C6_DiversityInvariant ==
    (/\ divOut # None
     /\ Len(divIn.candidates) >= 10
     /\ enoughInOverflow(divIn.candidates, divIn.limit))
    => mostShared(divOut.page) <= (4 * divIn.limit + 4) \div 5

\* The same for the limits of 10 and more only.
DiversityInvariantFromTen ==
    (/\ divOut # None
     /\ divIn.limit >= 10
     /\ Len(divIn.candidates) >= 10
     /\ enoughInOverflow(divIn.candidates, divIn.limit))
    => mostShared(divOut.page) <= (4 * divIn.limit + 4) \div 5

(***************************************************************************)
(* DFRE stages 1 to 3: retrieval, safety filtering, soft scoring.          *)
(* A retrieved candidate is a record with a userId and a vector score in   *)
(* hundredths.  The operations take the values they work from as           *)
(* arguments, one stage handing its result to the next.                    *)
(***************************************************************************)

userKey(userId, dataType) == cacheKey("user", <<userId>>, dataType, NoPage)
pageKey(userId, page) == cacheKey("user", <<userId>>, "feed_page", page)

\* queryNearest(..., 500, { userId: { $ne: userId } })
annCandidates(userId) ==
    SelectSeq(annResult.results, LAMBDA r : r.userId # userId)

\* The limit of the fallback query, 500 in the source.
FallbackLimit == 8

\* The rows the fallback query matches, in id order: users other than the
\* viewer, active within 7 days, not deleted, onboarded.
fallbackRows(userId) ==
    SelectSeq([i \in DOMAIN userRows |-> [userId |-> i, score |-> 50]],
              LAMBDA c : /\ c.userId # userId
                         /\ userRows[c.userId] # None
                         /\ userRows[c.userId].lastActiveAt <= 7 * HoursPerDay
                         /\ ~userRows[c.userId].deleted
                         /\ userRows[c.userId].onboardingComplete)

\* A fallback that takes every matching row.
dbFallbackCandidatesUnbounded(userId) == fallbackRows(userId)

\* The first FallbackLimit of them, each with score 0.5.
dbFallbackCandidates(userId) ==
    SubSeq(fallbackRows(userId), 1,
           Min2(Len(fallbackRows(userId)), FallbackLimit))

retrieveCandidates(userId) ==
    IF profiles[userId] = None THEN <<>>
    ELSE IF annResult.fails THEN dbFallbackCandidates(userId)
    ELSE annCandidates(userId)

setMembers(store, key) == IF key \in DOMAIN store THEN store[key] ELSE {}

\* The filter without the blocked_by set.
excludeSetWithoutBlockedBy(store, userId) ==
    setMembers(store, userKey(userId, "blocked"))
    \cup setMembers(store, userKey(userId, "passed"))
    \cup setMembers(store, userKey(userId, "resonated"))
    \cup {IF b[1] = userId THEN b[2] ELSE b[1] :
             b \in {r \in blocksReports : r[1] = userId \/ r[2] = userId}}

excludeSet(store, userId) ==
    setMembers(store, userKey(userId, "blocked"))
    \cup setMembers(store, userKey(userId, "passed"))
    \cup setMembers(store, userKey(userId, "resonated"))
    \cup setMembers(store, userKey(userId, "blocked_by"))
    \cup {IF b[1] = userId THEN b[2] ELSE b[1] :
             b \in {r \in blocksReports : r[1] = userId \/ r[2] = userId}}

keepOutside(candidates, excluded) ==
    SelectSeq(candidates, LAMBDA c : c.userId \notin excluded)

filterSafety(store, userId, candidates) ==
    IF Len(candidates) = 0 THEN <<>>
    ELSE keepOutside(candidates, excludeSet(store, userId))

\* hours since lastActive; a candidate without a users row counts from 1970
computeFreshness(user) ==
    IF user = None THEN <<3, 10>>
    ELSE IF user.lastActiveAt <= 1 THEN <<1, 1>>
    ELSE IF user.lastActiveAt <= 24 THEN <<9, 10>>
    ELSE IF user.lastActiveAt <= 72 THEN <<7, 10>>
    ELSE FracMax(<<3, 10>>,
                 Frac(7 * 168 - 10 * (user.lastActiveAt - 72), 10 * 168))

\* min(0.5, ghostRate * 0.7) over the matched rows of the user
computeGhostPenalty(matched) ==
    IF matched.total = 0 THEN <<0, 1>>
    ELSE FracMin(<<1, 2>>, Frac(7 * matched.ghosted, 10 * matched.total))

subscriptionBoostOf(user) ==
    IF user = None THEN <<0, 1>>
    ELSE IF user.subscriptionTier = "premium" THEN <<1, 10>>
    ELSE IF user.subscriptionTier = "plus" THEN <<1, 20>>
    ELSE <<0, 1>>

\* ersResult ? ersResult.totalScore / 100 : candidate.score
ersScoreOf(candidate, ers) ==
    IF ers.raised THEN Frac(candidate.score, 100)
    ELSE Frac(ers.totalScore, 100)

weightedScore(ersScore, freshness, ghostPenalty, subscriptionBoost) ==
    FracAdd(FracAdd(FracMul(ersScore, <<2, 5>>),
                    FracMul(freshness, <<3, 20>>)),
            FracAdd(FracMul(FracAdd(<<1, 1>>, <<0 - ghostPenalty[1],
                                                ghostPenalty[2]>>),
                            <<3, 20>>),
                    FracMul(FracAdd(<<1, 1>>, subscriptionBoost), <<3, 20>>)))

scoredCandidate(candidate, ers) ==
    [userId |-> candidate.userId,
     finalScore |-> weightedScore(ersScoreOf(candidate, ers),
                                  computeFreshness(userRows[candidate.userId]),
                                  computeGhostPenalty(matches[candidate.userId]),
                                  subscriptionBoostOf(userRows[candidate.userId])),
     archetype |-> IF profiles[candidate.userId] = None THEN Null
                   ELSE profiles[candidate.userId].energyArchetype]

\* The computeERS calls of the scoring loop, one per candidate.  The
\* candidates are distinct, so no call reads an entry an earlier one wrote.
ersCalls(store, userId, candidates) ==
    [i \in DOMAIN candidates |->
        computeERS(store, userId, candidates[i].userId, candidates[i].score)]
    \o <<>>

scoredFrom(candidates, calls) ==
    [i \in DOMAIN candidates |-> scoredCandidate(candidates[i], calls[i].result)]
    \o <<>>

\* The store after the loop: what was there and what the calls cached.
storeAfterCalls(store, userId, candidates, calls) ==
    [k \in DOMAIN store
           \cup {ersCacheKey(userId, candidates[i].userId) :
                    i \in {j \in DOMAIN candidates : ~calls[j].result.raised}}
        |-> IF k \in DOMAIN store THEN store[k]
            ELSE calls[CHOOSE i \in DOMAIN candidates :
                          ersCacheKey(userId, candidates[i].userId) = k].result]

\* scored.sort((a, b) => b.finalScore - a.finalScore): descending and stable
rankOf(scored, i) ==
    1 + Cardinality({j \in DOMAIN scored :
                        \/ ~FracLeq(scored[j].finalScore, scored[i].finalScore)
                        \/ /\ FracLeq(scored[i].finalScore, scored[j].finalScore)
                           /\ j < i})

sortByFinalScore(scored) ==
    [p \in DOMAIN scored |->
        scored[CHOOSE i \in DOMAIN scored : rankOf(scored, i) = p]]
    \o <<>>

(***************************************************************************)
(* DFRE stage 5: getDiscoveryFeed.  A cursor is the page number its text   *)
(* holds (NoCursor: the request has none); a null next cursor is NoCursor. *)
(***************************************************************************)

NoCursor == 0 - 1

cursorNumOf(cursor) == IF cursor = NoCursor THEN 0 ELSE cursor

\* The FeedResult of one page of the ranked list.
feedResult(ranked, cursorNum, limit) ==
    [profiles |-> slice(injectDiversity(slice(ranked, cursorNum * limit,
                                              cursorNum * limit + limit + 10),
                                        limit),
                        0, limit),
     cursor |-> IF cursorNum * limit + limit < Len(ranked)
                    THEN cursorNum + 1 ELSE NoCursor,
     totalCandidates |-> Len(ranked)]

\* What a call did: its result, how it was served, what stage 1 retrieved
\* and the ranked list it paged, and the store it leaves.
feedOutcome(store, raised, served, retrieved, ranked, result) ==
    [raised |-> raised, served |-> served, retrieved |-> retrieved,
     ranked |-> ranked, result |-> result, store |-> store]

NoResult == [profiles |-> <<>>, cursor |-> NoCursor, totalCandidates |-> 0]

\* if (nextCursor) cacheSet(feed_page_{cursorNum}, result)
cachePage(store, userId, cursorNum, served, retrieved, ranked, result) ==
    feedOutcome(IF result.cursor # NoCursor
                    THEN cacheSet(store, pageKey(userId, cursorNum), result)
                ELSE store,
                FALSE, served, retrieved, ranked, result)

pageFromRanked(store, userId, cursor, limit, served, retrieved, ranked) ==
    cachePage(store, userId, cursorNumOf(cursor), served, retrieved, ranked,
              feedResult(ranked, cursorNumOf(cursor), limit))

cacheRanked(store, userId, cursor, limit, retrieved, ranked) ==
    pageFromRanked(cacheSet(store, userKey(userId, "feed_ranked"), ranked),
                   userId, cursor, limit, "pipeline", retrieved, ranked)

scoreAndPage(store, userId, cursor, limit, retrieved, safe, calls) ==
    cacheRanked(storeAfterCalls(store, userId, safe, calls), userId, cursor,
                limit, retrieved, sortByFinalScore(scoredFrom(safe, calls)))

\* softScore: with no candidate the two batch reads are `... IN ()`, which
\* the database rejects, and the call raises.
softScoreAndPage(store, userId, cursor, limit, retrieved, safe) ==
    IF Len(safe) = 0
        THEN feedOutcome(store, TRUE, "pipeline", retrieved, <<>>, NoResult)
    ELSE scoreAndPage(store, userId, cursor, limit, retrieved, safe,
                      ersCalls(store, userId, safe))

fullPipeline(store, userId, cursor, limit, candidates) ==
    softScoreAndPage(store, userId, cursor, limit, candidates,
                     filterSafety(store, userId, candidates))

getDiscoveryFeed(store, userId, cursor, limit) ==
    IF cursor # NoCursor /\ pageKey(userId, cursor) \in DOMAIN store
        THEN feedOutcome(store, FALSE, "page_cache", <<>>, <<>>,
                         store[pageKey(userId, cursor)])
    ELSE IF userKey(userId, "feed_ranked") \in DOMAIN store
        THEN pageFromRanked(store, userId, cursor, limit, "ranked_cache", <<>>,
                            store[userKey(userId, "feed_ranked")])
    ELSE fullPipeline(store, userId, cursor, limit, retrieveCandidates(userId))

userIdsOf(seq) == [i \in DOMAIN seq |-> seq[i].userId] \o <<>>

\* The pages of the walk the call belongs to: a walk starts with a request
\* without a cursor and goes on with requests that send the cursor of the
\* response before, with the same limit, paged from the same ranked list.
walkAfter(userId, cursor, limit, outcome) ==
    IF outcome.raised \/ outcome.served = "page_cache"
        THEN [ok |-> FALSE, pages |-> <<>>, ranked |-> <<>>]
    ELSE IF cursor = NoCursor
        THEN [ok |-> TRUE, pages |-> userIdsOf(outcome.result.profiles),
              ranked |-> userIdsOf(outcome.ranked)]
    ELSE IF /\ feedOut # None
            /\ feedOut.walk.ok
            /\ feedOut.userId = userId
            /\ feedOut.limit = limit
            /\ feedOut.nextCursor = cursor
            /\ feedOut.walk.ranked = userIdsOf(outcome.ranked)
        THEN [ok |-> TRUE,
              pages |-> feedOut.walk.pages
                        \o userIdsOf(outcome.result.profiles),
              ranked |-> feedOut.walk.ranked]
    ELSE [ok |-> FALSE, pages |-> <<>>, ranked |-> <<>>]

recordFeed(userId, cursor, limit, outcome) ==
    /\ cache' = outcome.store
    /\ feedOut' = [userId |-> userId, cursor |-> cursor, limit |-> limit,
                   raised |-> outcome.raised,
                   served |-> outcome.served,
                   retrieved |-> userIdsOf(outcome.retrieved),
                   scores |-> {outcome.retrieved[i].score :
                                  i \in DOMAIN outcome.retrieved},
                   ranked |-> userIdsOf(outcome.ranked),
                   profiles |-> userIdsOf(outcome.result.profiles),
                   nextCursor |-> outcome.result.cursor,
                   totalCandidates |-> outcome.result.totalCandidates,
                   walk |-> walkAfter(userId, cursor, limit, outcome)]

GetDiscoveryFeed(userId, cursor, limit) ==
    /\ recordFeed(userId, cursor, limit,
                  getDiscoveryFeed(cache, userId, cursor, limit))
    /\ UNCHANGED <<dbVars, feedDbVars, outsideFeed>>

\* The 3-minute TTL of a feed_ranked or feed_page entry runs out.
ExpireFeedEntry(key) ==
    /\ key \in DOMAIN cache
    /\ key.dataType \in {"feed_ranked", "feed_page"}
    /\ cache' = cacheDel(cache, {key})
    /\ UNCHANGED <<dbVars, feedDbVars, feedOut, outsideFeed>>

(***************************************************************************)
(* SpecFeed: one viewer (user 1) and the candidates 2..NumFeedUsers, whose *)
(* rows follow one of four archetype patterns; the viewer's safety sets    *)
(* and the blocks_reports rows follow one of eight exclusion set-ups; the  *)
(* vector index answers or fails.                                          *)
(***************************************************************************)

NumFeedUsers == 14
MaxCursor == 2
FeedLimits == {5, 10}
FeedViewer == CHOOSE u \in {1} : TRUE

FeedPatterns == {"allWave", "tail", "mixed", "gaps", "stale"}

\* "tail": the last two candidates are sparks among waves.  "gaps":
\* candidate 3 has no profile row, candidate 4 no archetype, candidate 5
\* neither a users row nor a profile row.
feedArchetype(i, pattern) ==
    IF pattern = "tail" /\ i > NumFeedUsers - 2 THEN "spark"
    ELSE IF pattern = "mixed" THEN ArchetypeList[(i % 5) + 1]
    ELSE IF pattern = "gaps" /\ i = 4 THEN Null
    ELSE "wave"

FeedProfile(i, pattern) ==
    IF pattern = "gaps" /\ i \in {3, 5} THEN None
    ELSE [energyArchetype |-> feedArchetype(i, pattern),
          communicationStyle |-> IF i = FeedViewer THEN "poetic"
                                 ELSE StyleList[(i % 5) + 1],
          depthSeekerScore |-> 80,
          peakActivityWindows |->
              <<[hour |-> 2, score |-> 10], [hour |-> 14, score |-> 5]>>]

\* Candidate 9 was last active over 7 days ago, candidate 10 is deleted,
\* candidate 6 has not completed onboarding.  "stale": every candidate was
\* last active over 7 days ago.
FeedUserRow(i, pattern) ==
    IF pattern = "gaps" /\ i = 5 THEN None
    ELSE [location |-> 1000,
          lastActiveAt |-> IF i = FeedViewer THEN 1
                           ELSE IF i = 9 \/ pattern = "stale" THEN 200
                           ELSE 1 + 40 * (i % 5),
          subscriptionTier |-> <<"free", "plus", "premium">>[(i % 3) + 1],
          deleted |-> (i = 10),
          onboardingComplete |-> (i # 6)]

FeedMatches(i) ==
    [total |-> i % 3, ghosted |-> IF i % 3 = 0 THEN 0 ELSE i % 2]

\* The index holds a vector for every candidate but 7, nearest first.
FeedAnnResults ==
    SelectSeq([k \in 1..(NumFeedUsers - 1) |->
                  [userId |-> k + 1, score |-> 97 - 2 * (k + 1)]],
              LAMBDA r : r.userId # 7)

\* Exclusion set-ups: the blocked, passed, resonated and blocked_by sets
\* and the blocks_reports rows.  0: nothing; 1 to 5: one source each;
\* 6: all five sources; 7: every candidate is blocked.
FeedSets(e) ==
    [blocked |-> IF e = 7 THEN 2..NumFeedUsers
                 ELSE IF e \in {1, 6} THEN {2} ELSE {},
     passed |-> IF e \in {2, 6} THEN {3, 8} ELSE {},
     resonated |-> IF e \in {3, 6} THEN {4} ELSE {},
     blocked_by |-> IF e \in {4, 6} THEN {5} ELSE {},
     blocksReports |-> IF e \in {5, 6}
                          THEN {<<FeedViewer, 6>>, <<11, FeedViewer>>, <<2, 3>>}
                       ELSE {}]

\* A set that was never added to has no key.
FeedSetStore(sets) ==
    [k \in {userKey(FeedViewer, t) :
               t \in {t2 \in {"blocked", "passed", "resonated", "blocked_by"} :
                         sets[t2] # {}}}
        |-> sets[k.dataType]]

FeedInit ==
    /\ \E pattern \in FeedPatterns, e \in 0..7, fails \in BOOLEAN,
          viewerHasProfile \in BOOLEAN :
          /\ \/ e \in {0, 6} /\ viewerHasProfile
             \/ pattern = "allWave" /\ viewerHasProfile
             \/ pattern = "allWave" /\ ~fails /\ e = 0
          /\ profiles = [i \in 1..NumFeedUsers |->
                            IF i = FeedViewer /\ ~viewerHasProfile THEN None
                            ELSE FeedProfile(i, pattern)]
          /\ userRows = [i \in 1..NumFeedUsers |-> FeedUserRow(i, pattern)]
          /\ cache = FeedSetStore(FeedSets(e))
          /\ blocksReports = FeedSets(e).blocksReports
          /\ annResult = [fails |-> fails, results |-> FeedAnnResults]
    /\ matches = [i \in 1..NumFeedUsers |-> FeedMatches(i)]
    /\ feedOut = None
    /\ StateIdle /\ CHMIdle /\ ERSIdle /\ DivIdle /\ RPBIdle
    /\ MoreIdle

FeedNext ==
    \/ \E cursor \in {NoCursor} \cup 0..MaxCursor, limit \in FeedLimits :
          GetDiscoveryFeed(FeedViewer, cursor, limit)
    \/ \E key \in DOMAIN cache : ExpireFeedEntry(key)

SpecFeed == FeedInit /\ [][FeedNext]_vars

seqToSet(seq) == {seq[i] : i \in DOMAIN seq}

C5_PaginationClosure ==
    (feedOut # None /\ feedOut.walk.ok)
    => feedOut.walk.pages
         = slice(feedOut.walk.ranked, 0,
                 (cursorNumOf(feedOut.cursor) + 1) * feedOut.limit)

\* C31: over a walk through the pages of one ranked list with one limit, no
\* user appears on two pages, and once the walk has reached the last page
\* every user of the ranked list has appeared: an entry that diversity
\* injection replaced is not lost.
\* The code does not do this: the replacement comes from the overflow of
\* the slice, which is the head of the next page, and is paged again there,
\* while the entry it replaced is on no page.
C31_NoUserOnTwoPages ==
    (feedOut # None /\ feedOut.walk.ok)
    => /\ \A i, j \in DOMAIN feedOut.walk.pages :
             feedOut.walk.pages[i] = feedOut.walk.pages[j] => i = j
       /\ feedOut.nextCursor = NoCursor
             => seqToSet(feedOut.walk.ranked)
                    \subseteq seqToSet(feedOut.walk.pages)

\* A walk of two pages with limit 10: a user of the second page was on the
\* first page already, and a user of the ranked list is on neither.
C31_InjectedTwice ==
    /\ feedOut # None /\ feedOut.walk.ok
    /\ feedOut.limit = 10 /\ feedOut.cursor = 1
    /\ feedOut.nextCursor = NoCursor
    /\ \E i \in 1..10 : \E j \in 11..Len(feedOut.walk.pages) :
          feedOut.walk.pages[i] = feedOut.walk.pages[j]
    /\ seqToSet(feedOut.walk.ranked) \ seqToSet(feedOut.walk.pages) # {}

\* C32: a response to a request with limit L holds at most L profiles and
\* its next cursor is the one computed for L, also when it is served from
\* the page cache.
\* The code does not do this: the page cache is keyed by the cursor alone,
\* so a page stored by a request with another limit is returned as it is.
C32_ResponseFollowsLimit ==
    (feedOut # None /\ ~feedOut.raised)
    => /\ Len(feedOut.profiles) <= feedOut.limit
       /\ feedOut.nextCursor =
             IF (cursorNumOf(feedOut.cursor) + 1) * feedOut.limit
                    < feedOut.totalCandidates
                 THEN cursorNumOf(feedOut.cursor) + 1
             ELSE NoCursor

\* What holds: every response that is not served from the page cache
\* follows the limit of its request.
C32_FollowsLimitUnlessPageCache ==
    (feedOut # None /\ ~feedOut.raised /\ feedOut.served # "page_cache")
    => /\ Len(feedOut.profiles) <= feedOut.limit
       /\ feedOut.nextCursor =
             IF (cursorNumOf(feedOut.cursor) + 1) * feedOut.limit
                    < feedOut.totalCandidates
                 THEN cursorNumOf(feedOut.cursor) + 1
             ELSE NoCursor

\* A request with limit 5 was answered with the 10 profiles of a page that
\* a request with limit 10 had stored.
C32_TooManyProfiles ==
    /\ feedOut # None /\ ~feedOut.raised
    /\ feedOut.served = "page_cache"
    /\ feedOut.limit = 5
    /\ Len(feedOut.profiles) = 10

\* A request with limit 10 and cursor 1 was answered from the page a
\* request with limit 5 had stored, with next cursor 2 although the ranked
\* list ends on that page.
C32_CursorOfOtherLimit ==
    /\ feedOut # None /\ ~feedOut.raised
    /\ feedOut.served = "page_cache"
    /\ feedOut.limit = 10 /\ feedOut.cursor = 1
    /\ feedOut.nextCursor = 2
    /\ feedOut.totalCandidates <= 20

\* The users the fallback scan may return for the viewer of the last call.
fallbackEligible ==
    {u \in DOMAIN userRows \ {feedOut.userId} :
        /\ userRows[u] # None
        /\ userRows[u].lastActiveAt <= 7 * HoursPerDay
        /\ ~userRows[u].deleted
        /\ userRows[u].onboardingComplete}

\* C25: a pipeline run of getDiscoveryFeed during which the ANN query fails
\* does not fail: stage 1 hands on at most FallbackLimit (500) users from
\* the database scan, all other than the viewer, active within 7 days, not
\* deleted and onboarded, each with vector score 0.5, and the remaining
\* stages rank what the safety filter leaves of that list.
C25_FallbackOnAnnFailure ==
    (/\ feedOut # None
     /\ feedOut.served = "pipeline"
     /\ annResult.fails
     /\ profiles[feedOut.userId] # None)
    => /\ ~feedOut.raised
       /\ seqToSet(feedOut.retrieved) \subseteq fallbackEligible
       /\ Len(feedOut.retrieved)
             = Min2(Cardinality(fallbackEligible), FallbackLimit)
       /\ Cardinality(seqToSet(feedOut.retrieved)) = Len(feedOut.retrieved)
       /\ feedOut.scores \subseteq {50}
       /\ seqToSet(feedOut.ranked) \subseteq seqToSet(feedOut.retrieved)

\* The ANN query failed and the feed was ranked from the database scan,
\* which matched more users than the limit lets through.
C25_FallbackRanked ==
    /\ feedOut # None
    /\ feedOut.served = "pipeline"
    /\ annResult.fails
    /\ ~feedOut.raised
    /\ Cardinality(fallbackEligible) > FallbackLimit
    /\ Len(feedOut.retrieved) = FallbackLimit
    /\ feedOut.scores = {50}
    /\ Len(feedOut.ranked) >= 3

\* The ANN query failed, the scan matched no user and the call raised.
C25_FallbackEmptyRaises ==
    /\ feedOut # None
    /\ feedOut.served = "pipeline"
    /\ annResult.fails
    /\ profiles[feedOut.userId] # None
    /\ fallbackEligible = {}
    /\ feedOut.raised

\* What holds of the fallback apart from the failure on an empty list:
\* the call raises exactly when the safety filter leaves nothing.
C25_FallbackUnlessEmpty ==
    (/\ feedOut # None
     /\ feedOut.served = "pipeline"
     /\ annResult.fails
     /\ profiles[feedOut.userId] # None)
    => /\ seqToSet(feedOut.retrieved) \subseteq fallbackEligible
       /\ Len(feedOut.retrieved)
             = Min2(Cardinality(fallbackEligible), FallbackLimit)
       /\ feedOut.scores \subseteq {50}
       /\ feedOut.raised <=>
             seqToSet(feedOut.retrieved)
                 \subseteq excludeSet(cache, feedOut.userId)
       /\ ~feedOut.raised =>
             seqToSet(feedOut.ranked)
                 = seqToSet(feedOut.retrieved)
                      \ excludeSet(cache, feedOut.userId)

\* C26: a pipeline run of getDiscoveryFeed for a viewer without a resonance
\* profile does not raise and returns no profiles, no next cursor and the
\* total 0.
C26_NoProfileEmptyFeed ==
    (/\ feedOut # None
     /\ feedOut.served = "pipeline"
     /\ profiles[feedOut.userId] = None)
    => /\ ~feedOut.raised
       /\ feedOut.profiles = <<>>
       /\ feedOut.nextCursor = NoCursor
       /\ feedOut.totalCandidates = 0

\* The viewer has no profile, stage 1 retrieved nothing and the call
\* raised in stage 3.
C26_NoProfileRaises ==
    /\ feedOut # None
    /\ feedOut.served = "pipeline"
    /\ profiles[feedOut.userId] = None
    /\ feedOut.retrieved = <<>>
    /\ feedOut.raised

\* C27: every page getDiscoveryFeed emits for page number c is in the cache
\* under user:{viewerId}:feed_page_{c} when the call returns, the first and
\* the last page included, and a request for page c while that entry is
\* there is served from it.
C27_EveryPageCachedAndServed ==
    [][feedOut' # feedOut =>
        LET key == pageKey(feedOut'.userId, cursorNumOf(feedOut'.cursor))
        IN  /\ ~feedOut'.raised =>
                  /\ key \in DOMAIN cache'
                  /\ userIdsOf(cache'[key].profiles) = feedOut'.profiles
            /\ key \in DOMAIN cache => feedOut'.served = "page_cache"]_vars

\* The first half alone: every emitted page is in the cache afterwards.
C27_EveryPageCached ==
    [][(feedOut' # feedOut /\ ~feedOut'.raised) =>
        pageKey(feedOut'.userId, cursorNumOf(feedOut'.cursor))
            \in DOMAIN cache']_vars

\* The second half alone: a cached page is served from its entry.
C27_CachedPageServed ==
    [][(/\ feedOut' # feedOut
        /\ pageKey(feedOut'.userId, cursorNumOf(feedOut'.cursor))
              \in DOMAIN cache)
        => feedOut'.served = "page_cache"]_vars

\* What the code does: a page is cached when it has a next cursor, and a
\* request is served from the page cache when it sends a cursor whose page
\* entry is there.
C27_CachedWhenNotLast ==
    [][feedOut' # feedOut =>
        LET key == pageKey(feedOut'.userId, cursorNumOf(feedOut'.cursor))
        IN  /\ (~feedOut'.raised /\ feedOut'.nextCursor # NoCursor)
                   => key \in DOMAIN cache'
            /\ (/\ ~feedOut'.raised
                /\ feedOut'.nextCursor = NoCursor
                /\ feedOut'.served # "page_cache"
                /\ key \notin DOMAIN cache)
                   => key \notin DOMAIN cache'
            /\ feedOut'.served = "page_cache"
                  <=> (feedOut'.cursor # NoCursor /\ key \in DOMAIN cache)]_vars

(***************************************************************************)
(* RPB: rebuildResonanceProfile, one action per step between two awaits.   *)
(* The aggregation and classification of a user's behavioural data is held *)
(* as the profile template the data stands for.                            *)
(***************************************************************************)

Procs == {"r1", "r2"}

IdleRebuild ==
    [pc |-> "idle", userId |-> 0, data |-> None, embeddingGenerated |-> FALSE,
     existing |-> FALSE, wrote |-> FALSE, invalidated |-> FALSE,
     removed |-> 0]

\* A rebuild that invalidates the cache before it looks for and writes the
\* profile row.
stepAfterInvalidateFirst(pc) ==
    CASE pc = "start" -> "aggregate"
      [] pc = "aggregate" -> "embed"
      [] pc = "embed" -> "invalidate"
      [] pc = "invalidate" -> "find"
      [] pc = "find" -> "write"
      [] pc = "write" -> "done"

\* The order of the steps of rebuildResonanceProfile.
stepAfter(pc) ==
    CASE pc = "start" -> "aggregate"
      [] pc = "aggregate" -> "embed"
      [] pc = "embed" -> "find"
      [] pc = "find" -> "write"
      [] pc = "write" -> "invalidate"
      [] pc = "invalidate" -> "done"

\* archetype, style, activity windows and depth score of the signals
profileDataOf(signalsId) == ProfileTemplate(signalsId[1], signalsId[2])

\* 1. fetch the user; raise if there is none
RebuildStart(p, userId) ==
    /\ rb[p].pc = "idle"
    /\ rb' = [rb EXCEPT ![p] =
                 [IdleRebuild EXCEPT
                     !.pc = IF userRows[userId] = None THEN "raised"
                            ELSE stepAfter("start"),
                     !.userId = userId]]
    /\ UNCHANGED <<behaviour, vectors, dbVars, cache, outsideRPB>>

\* 2. to 5. aggregate the six sources, classify
RebuildAggregate(p) ==
    /\ rb[p].pc = "aggregate"
    /\ rb' = [rb EXCEPT ![p].pc = stepAfter("aggregate"),
                        ![p].data = behaviour[rb[p].userId]]
    /\ UNCHANGED <<behaviour, vectors, dbVars, cache, outsideRPB>>

\* A rebuild without the try/catch around the embedding and the upsert.
afterEmbeddingUncaught(succeeds) ==
    IF succeeds THEN stepAfter("embed") ELSE "raised"

\* The catch of step 6 swallows a failed embedding or upsert: the rebuild
\* goes on to the row either way.
afterEmbedding(succeeds) == stepAfter("embed")

\* 6. and 7. generate the embedding and upsert the vector; a failure of
\* either is caught and leaves the index as it was
RebuildEmbed(p, succeeds) ==
    /\ rb[p].pc = "embed"
    /\ rb' = [rb EXCEPT ![p].pc = afterEmbedding(succeeds),
                        ![p].embeddingGenerated = succeeds]
    /\ vectors' = IF succeeds
                      THEN [vectors EXCEPT ![rb[p].userId] = [of |-> rb[p].data]]
                  ELSE vectors
    /\ UNCHANGED <<behaviour, dbVars, cache, outsideRPB>>

\* 8. look for the user's profile row
RebuildFind(p) ==
    /\ rb[p].pc = "find"
    /\ rb' = [rb EXCEPT ![p].pc = stepAfter("find"),
                        ![p].existing = (profiles[rb[p].userId] # None)]
    /\ UNCHANGED <<behaviour, vectors, dbVars, cache, outsideRPB>>

\* 8. update the row found, or insert one.  An update of a row that is gone
\* changes nothing; an insert fails when the user is gone (foreign key) or
\* has a row by now (user_id is unique).
RebuildWrite(p) ==
    /\ rb[p].pc = "write"
    /\ IF rb[p].existing
         THEN /\ profiles' = IF profiles[rb[p].userId] = None THEN profiles
                             ELSE [profiles EXCEPT ![rb[p].userId] =
                                      profileDataOf(rb[p].data)]
              /\ rb' = [rb EXCEPT ![p].pc = stepAfter("write"),
                                  ![p].wrote = TRUE]
       ELSE IF userRows[rb[p].userId] = None \/ profiles[rb[p].userId] # None
         THEN /\ profiles' = profiles
              /\ rb' = [rb EXCEPT ![p].pc = "raised"]
       ELSE /\ profiles' = [profiles EXCEPT ![rb[p].userId] =
                               profileDataOf(rb[p].data)]
            /\ rb' = [rb EXCEPT ![p].pc = stepAfter("write"),
                                ![p].wrote = TRUE]
    /\ UNCHANGED <<behaviour, vectors, userRows, cache, outsideRPB>>

\* 9. cacheInvalidatePattern(`resonate:user:${userId}:*`)
RebuildInvalidate(p) ==
    /\ rb[p].pc = "invalidate"
    /\ cache' = cacheInvalidatePattern(cache, rb[p].userId)
    /\ rb' = [rb EXCEPT ![p].pc = stepAfter("invalidate"),
                        ![p].invalidated = TRUE,
                        ![p].removed =
                            Cardinality({k \in DOMAIN cache :
                                matchesUserPattern(rb[p].userId, k)})]
    /\ UNCHANGED <<behaviour, vectors, dbVars, outsideRPB>>

\* New behavioural events of the user are recorded: the next aggregation
\* gives another profile.
TrackBehaviour(userId) ==
    /\ behaviour[userId] = <<3, 0>>
    /\ behaviour' = [behaviour EXCEPT ![userId] = <<1, 1>>]
    /\ UNCHANGED <<rb, vectors, dbVars, cache, outsideRPB>>

(***************************************************************************)
(* Spec: users 1 and 2 (user 3 has no rows), rebuilds of any of the three, *)
(* computeERS on the pair and the first feed page of user 1.               *)
(***************************************************************************)

SpecUsers == {1, 2}
AllUsers == {1, 2, 3}

SpecUserRow ==
    [location |-> 1000, lastActiveAt |-> 1, subscriptionTier |-> "free",
     deleted |-> FALSE, onboardingComplete |-> TRUE]

Init ==
    /\ \E firstHasProfile \in BOOLEAN :
          /\ profiles = [u \in AllUsers |->
                            IF u = 2 \/ (u = 1 /\ firstHasProfile)
                                THEN profileDataOf(<<3, 0>>) ELSE None]
          /\ vectors = [u \in AllUsers |->
                            IF u = 2 \/ (u = 1 /\ firstHasProfile)
                                THEN [of |-> <<3, 0>>] ELSE None]
    /\ userRows = [u \in AllUsers |-> IF u \in SpecUsers THEN SpecUserRow
                                      ELSE None]
    /\ behaviour = [u \in AllUsers |-> <<3, 0>>]
    /\ rb = [p \in Procs |-> IdleRebuild]
    /\ cache = EmptyCache
    /\ ersOut = None
    /\ blocksReports = {}
    /\ matches = [u \in AllUsers |-> [total |-> 0, ghosted |-> 0]]
    /\ annResult = [fails |-> FALSE,
                    results |-> <<[userId |-> 1, score |-> 90],
                                  [userId |-> 2, score |-> 80]>>]
    /\ feedOut = None
    /\ StateIdle /\ CHMIdle /\ DivIdle
    /\ MoreIdle

Next ==
    \/ \E p \in Procs, u \in AllUsers : RebuildStart(p, u)
    \/ \E p \in Procs : RebuildAggregate(p)
    \/ \E p \in Procs, succeeds \in BOOLEAN : RebuildEmbed(p, succeeds)
    \/ \E p \in Procs : RebuildFind(p)
    \/ \E p \in Procs : RebuildWrite(p)
    \/ \E p \in Procs : RebuildInvalidate(p)
    \/ \E u \in SpecUsers : TrackBehaviour(u)
    \/ \E a \in SpecUsers, b \in SpecUsers : a # b /\ ComputeERS(a, b, NoSim)
    \/ GetDiscoveryFeed(FeedViewer, NoCursor, 1)

Spec == Init /\ [][Next]_vars

\* C3: the step in which a rebuild of u invalidates the cache and completes
\* leaves no ers:{minId}:{maxId}:score key of a pair that includes u.
C3_ErsInvalidatedByRebuild ==
    [][\A p \in Procs :
          (rb[p].pc = "invalidate" /\ rb'[p].pc = "done")
          => \A k \in DOMAIN cache' :
                ~(k.entity = "ers" /\ rb[p].userId \in seqToSet(k.id))]_vars

\* C4: an execution of the rebuild reaches its cache invalidation, and has
\* invalidated, only with its profile row write (update or insert) done.
C4_InvalidateAfterCommit ==
    \A p \in Procs :
        (rb[p].pc = "invalidate" \/ rb[p].invalidated) => rb[p].wrote

\* A rebuild that wrote the row, then removed keys of the user, and is done.
C4_Witness ==
    \E p \in Procs :
        /\ rb[p].pc = "done"
        /\ rb[p].wrote /\ rb[p].invalidated
        /\ rb[p].removed > 0
        /\ profiles[rb[p].userId] = profileDataOf(rb[p].data)

\* C34: two executions of the rebuild for one user, whose users row is
\* there, both complete without error, and when both are done the user has
\* a profile row.
\* The code does not do this: both may find no row, and user_id is the
\* primary key, so the insert of the second raises.
C34_ConcurrentRebuildsComplete ==
    \A p, q \in Procs :
        (/\ p # q
         /\ rb[p].pc # "idle" /\ rb[q].pc # "idle"
         /\ rb[p].userId = rb[q].userId
         /\ userRows[rb[p].userId] # None)
        => /\ rb[p].pc # "raised"
           /\ (rb[p].pc = "done" /\ rb[q].pc = "done")
                  => profiles[rb[p].userId] # None

\* Both executions found no row; one inserted and completed, the other
\* raised at its insert.
C34_DuplicateInsertRaised ==
    \E p, q \in Procs :
        /\ p # q
        /\ rb[p].pc = "done" /\ rb[p].wrote
        /\ rb[q].pc = "raised" /\ ~rb[q].wrote /\ ~rb[q].invalidated
        /\ rb[p].userId = rb[q].userId
        /\ userRows[rb[p].userId] # None
        /\ ~rb[p].existing /\ ~rb[q].existing
        /\ profiles[rb[p].userId] = profileDataOf(rb[p].data)

(***************************************************************************)
(* The rate limiter of the OpenAI client (src/lib/openai.ts).  Time is in  *)
(* ticks; the window of 60 000 ms is WindowTicks ticks and the limit of    *)
(* 3000 calls is scaled to RPM_LIMIT calls.  The code before the await of  *)
(* checkRateLimit runs as one step and the code after it as another, as    *)
(* the event loop runs them.                                               *)
(***************************************************************************)
\* src/lib/openai.ts:57  RPM_LIMIT = 3000, scaled
RPM_LIMIT == 3
\* src/lib/openai.ts:63  the window of 60_000 ms, in ticks
WindowTicks == 3
MaxClock == 5
\* The calls of checkRateLimit one run makes.
MaxCalls == 6
Callers == {"k1", "k2"}

IdleCaller == [pc |-> "idle", wakeAt |-> NoTime, waitMs |-> NoTime]

\* The window the call counts in: a window older than 60 s is replaced.
windowAt(now) ==
    IF now - minuteStart > WindowTicks
    THEN [calls |-> 0, start |-> now]
    ELSE [calls |-> callsThisMinute, start |-> minuteStart]

passAt(now) == [passes EXCEPT ![now] = @ + 1]

RECURSIVE passedBetween(_, _)
\* The number of calls that passed at the ticks from .. to.
passedBetween(from, to) ==
    IF from > to THEN 0 ELSE passes[from] + passedBetween(from + 1, to)

\* The calls made so far: those that passed and those that sleep.
callsMade ==
    passedBetween(0, MaxClock)
        + Cardinality({k \in Callers : callers[k].pc = "sleeping"})

\* checkRateLimit up to its return or its await: the call of caller k
\* either passes at once or goes to sleep for waitMs.
CheckRateLimit(k) ==
    /\ callers[k].pc = "idle"
    /\ callsMade < MaxCalls
    /\ \E w \in {windowAt(clock)} :
         /\ callsThisMinute' = w.calls + 1
         /\ minuteStart' = w.start
         /\ IF w.calls + 1 >= RPM_LIMIT
            THEN /\ callers' =
                      [callers EXCEPT ![k] =
                          [pc |-> "sleeping",
                           waitMs |-> WindowTicks - (clock - w.start),
                           wakeAt |-> clock + WindowTicks - (clock - w.start)]]
                 /\ UNCHANGED passes
            ELSE /\ passes' = passAt(clock)
                 /\ UNCHANGED callers
    /\ UNCHANGED <<clock, outsideRate>>

\* A continuation that goes on only once the shared counter is below the
\* limit again.
CheckRateLimitWakeBelowLimit(k) ==
    /\ callers[k].pc = "sleeping"
    /\ clock >= callers[k].wakeAt
    /\ callsThisMinute < RPM_LIMIT
    /\ callsThisMinute' = 0
    /\ minuteStart' = clock
    /\ passes' = passAt(clock)
    /\ callers' = [callers EXCEPT ![k] = IdleCaller]
    /\ UNCHANGED <<clock, outsideRate>>

\* checkRateLimit after the await: the timer has fired, the caller resets
\* the counter and the window and its call passes.
CheckRateLimitWake(k) ==
    /\ callers[k].pc = "sleeping"
    /\ clock >= callers[k].wakeAt
    /\ callsThisMinute' = 0
    /\ minuteStart' = clock
    /\ passes' = passAt(clock)
    /\ callers' = [callers EXCEPT ![k] = IdleCaller]
    /\ UNCHANGED <<clock, outsideRate>>

ClockTick ==
    /\ clock < MaxClock
    /\ clock' = clock + 1
    /\ UNCHANGED <<callsThisMinute, minuteStart, callers, passes, outsideRate>>

RateInit ==
    /\ clock = 0
    /\ callsThisMinute = 0
    /\ minuteStart = 0
    /\ callers = [k \in Callers |-> IdleCaller]
    /\ passes = [t \in 0..MaxClock |-> 0]
    /\ CoreIdle /\ AdapterIdle /\ ClassifyIdle /\ ChronoIdle /\ RpcIdle
    /\ BatchIdle /\ LateIdle

RateNext ==
    \/ \E k \in Callers : CheckRateLimit(k)
    \/ \E k \in Callers : CheckRateLimitWake(k)
    \/ ClockTick

SpecRate == RateInit /\ [][RateNext]_vars

\* The calls whose timer fires within the time the model covers.
CheckRateLimitInTime(k) ==
    /\ clock + WindowTicks <= MaxClock
    /\ CheckRateLimit(k)

RateLiveNext ==
    \/ \E k \in Callers : CheckRateLimitInTime(k)
    \/ \E k \in Callers : CheckRateLimitWake(k)
    \/ ClockTick

\* Time passes, and the event loop runs the continuation of a caller whose
\* timer has fired.
SpecRateLive ==
    /\ RateInit
    /\ [][RateLiveNext]_vars
    /\ WF_vars(ClockTick)
    /\ \A k \in Callers : WF_vars(CheckRateLimitWake(k))

\* C39: the wait of a caller is from 0 to 60 seconds, and every caller that
\* waits goes on, whatever the other callers do to the counter and the
\* window meanwhile.
C39_EveryCallerProceeds ==
    /\ [](\A k \in Callers :
            callers[k].pc = "sleeping"
                => /\ callers[k].waitMs \in 0..WindowTicks
                   /\ callers[k].wakeAt <= MaxClock)
    /\ \A k \in Callers :
          (callers[k].pc = "sleeping") ~> (callers[k].pc = "idle")

\* Both callers waited, the first to go on set the counter and the window
\* start anew, and the second went on after it.
C39_Witness ==
    /\ \A k \in Callers : callers[k].pc = "idle"
    /\ \E t \in WindowTicks..MaxClock : passes[t] >= 2
    /\ callsThisMinute = 0

\* C11: in every sliding window of 60 s (every run of ticks that spans less
\* than WindowTicks) at most RPM_LIMIT calls have passed checkRateLimit.
C11_SlidingWindowLimit ==
    \A from \in 0..MaxClock : \A to \in from..MaxClock :
        to - from < WindowTicks => passedBetween(from, to) <= RPM_LIMIT

\* C12: when two rebuilds of the same user have both upserted a vector and
\* written the row and are done, the stored row and the stored vector are
\* both the ones one of them wrote (the rebuild that wrote last).
C12_LastWriteWinsOnBoth ==
    \A u \in AllUsers :
        (\A p \in Procs :
            /\ rb[p].pc = "done" /\ rb[p].userId = u
            /\ rb[p].wrote /\ rb[p].embeddingGenerated)
        => \E p \in Procs :
              /\ profiles[u] = profileDataOf(rb[p].data)
              /\ vectors[u] = [of |-> rb[p].data]

NoExpiry == 0 - 1
MaxRedisNow == 2
\* src/unnamed/part_014:98  the count of one SCAN call, scaled
ScanCount == 1

\* The keys of the store, in the order SCAN walks them.
AdapterKeys ==
    <<userKey(1, "feed_ranked"), ersCacheKey(1, 2), pageKey(1, 0)>>
AdapterKeySet == {AdapterKeys[i] : i \in 1..Len(AdapterKeys)}
AdapterValues == {[totalScore |-> 93], [totalScore |-> 40]}
\* ttlSeconds: none (TTL.NUDGE), or two ticks.
AdapterTtls == {0, 2}

\* client.set(key, value, { ex }) when ttlSeconds > 0, client.set(key, value)
\* otherwise: the entry replaces the one the key had, its expiry included.
redisSet(store, now, key, value, ttlSeconds) ==
    [k \in DOMAIN store \cup {key} |->
        IF k = key
            THEN [value |-> value,
                  expiresAt |-> IF ttlSeconds > 0 THEN now + ttlSeconds
                                ELSE NoExpiry]
        ELSE store[k]]

\* client.get(key): the value, null when the key is not there
redisGet(store, key) ==
    IF key \in DOMAIN store THEN store[key].value ELSE None

\* client.scan(cursor, { match, count }): the matching keys among the next
\* ScanCount of the walk, and the next cursor, 0 at the end of the walk.
redisScan(store, cursor, userId) ==
    [cursor |-> IF cursor + ScanCount >= Len(AdapterKeys) THEN 0
                ELSE cursor + ScanCount,
     keys |-> {AdapterKeys[i] : i \in
                  {j \in (cursor + 1)..Min2(cursor + ScanCount, Len(AdapterKeys)) :
                      /\ AdapterKeys[j] \in DOMAIN store
                      /\ matchesUserPattern(userId, AdapterKeys[j])}}]

RECURSIVE scanDeleteUntilEmpty(_, _, _)
\* A loop that ends at the first SCAN call that returns no key.
scanDeleteUntilEmpty(store, cursor, userId) ==
    LET result == redisScan(store, cursor, userId)
    IN  IF result.keys = {} \/ result.cursor = 0
            THEN cacheDel(store, result.keys)
        ELSE scanDeleteUntilEmpty(cacheDel(store, result.keys),
                                  result.cursor, userId)

RECURSIVE scanDelete(_, _, _)
\* The do/while of cacheInvalidatePattern: scan, delete the keys returned,
\* until the cursor is back at 0.
scanDelete(store, cursor, userId) ==
    LET result == redisScan(store, cursor, userId)
    IN  IF result.cursor = 0 THEN cacheDel(store, result.keys)
        ELSE scanDelete(cacheDel(store, result.keys), result.cursor, userId)

\* The record of a cacheSet whose key a later call deleted.
deleted(h, by) == IF h = None THEN None ELSE [deletedBy |-> by]

CacheSet(key, value, ttlSeconds) ==
    /\ redis' = redisSet(redis, redisNow, key, value, ttlSeconds)
    /\ lastSet' = [lastSet EXCEPT ![key] =
                      [value |-> value, ttlSeconds |-> ttlSeconds,
                       at |-> redisNow, deletedBy |-> "none"]]
    /\ cacheOut' = [op |-> "cacheSet", key |-> key, at |-> redisNow]
    /\ UNCHANGED <<redisNow, outsideAdapter>>

CacheGet(key) ==
    /\ cacheOut' = [op |-> "cacheGet", key |-> key, at |-> redisNow,
                    value |-> redisGet(redis, key)]
    /\ UNCHANGED <<redis, redisNow, lastSet, outsideAdapter>>

CacheInvalidate(key) ==
    /\ redis' = cacheDel(redis, {key})
    /\ lastSet' = [lastSet EXCEPT ![key] = deleted(@, "cacheInvalidate")]
    /\ cacheOut' = [op |-> "cacheInvalidate", key |-> key, at |-> redisNow]
    /\ UNCHANGED <<redisNow, outsideAdapter>>

\* cacheInvalidatePattern(`resonate:user:${userId}:*`)
CacheInvalidatePattern(userId) ==
    /\ redis' = scanDelete(redis, 0, userId)
    /\ lastSet' = [k \in AdapterKeySet |->
                      IF matchesUserPattern(userId, k)
                          THEN deleted(lastSet[k], "cacheInvalidatePattern")
                      ELSE lastSet[k]]
    /\ cacheOut' = [op |-> "cacheInvalidatePattern", userId |-> userId,
                    at |-> redisNow, before |-> redis,
                    after |-> scanDelete(redis, 0, userId)]
    /\ UNCHANGED <<redisNow, outsideAdapter>>

\* Time passes in the store; the entries whose time has come are gone.
RedisTick ==
    /\ redisNow < MaxRedisNow
    /\ redisNow' = redisNow + 1
    /\ redis' = cacheDel(redis, {k \in DOMAIN redis :
                                    /\ redis[k].expiresAt # NoExpiry
                                    /\ redis[k].expiresAt <= redisNow + 1})
    /\ UNCHANGED <<cacheOut, lastSet, outsideAdapter>>

AdapterInit ==
    /\ redis = EmptyCache
    /\ redisNow = 0
    /\ cacheOut = None
    /\ lastSet = [k \in AdapterKeySet |-> None]
    /\ CoreIdle /\ RateIdle /\ ClassifyIdle /\ ChronoIdle /\ RpcIdle
    /\ BatchIdle /\ LateIdle

AdapterNext ==
    \/ \E k \in AdapterKeySet, v \in AdapterValues, t \in AdapterTtls :
          CacheSet(k, v, t)
    \/ \E k \in AdapterKeySet : CacheGet(k)
    \/ \E k \in AdapterKeySet : CacheInvalidate(k)
    \/ \E u \in {1, 2} : CacheInvalidatePattern(u)
    \/ RedisTick

SpecAdapter == AdapterInit /\ [][AdapterNext]_vars

bioSignalsOf(wordCount) ==
    [wordCount |-> wordCount,
     style |-> IF wordCount < 20 THEN "minimal"
               ELSE IF wordCount > 80 THEN "expressive"
               ELSE "moderate"]

Has(bundle) == bundle # None

\* The five terms of each score, in the order the source adds them: the
\* weight in hundredths and whether the term's condition holds.
archetypeTerms(signals) ==
    LET voice == signals.voiceAnalysis
        messaging == signals.messagingBehavior
        typing == signals.typingBehavior
        sessions == signals.sessionTiming
    IN  [spark |->
            <<<<30, Has(voice) /\ voice.speakingPace = "fast">>,
              <<20, Has(messaging) /\ messaging.emojiRate > 50>>,
              <<20, Has(typing) /\ typing.cadenceVariance > 5000>>,
              <<15, Has(messaging) /\ messaging.questionRate > 30>>,
              <<15, Has(voice) /\ voice.sentimentScore > 50>>>>,
         anchor |->
            <<<<30, Has(voice) /\ voice.speakingPace = "slow">>,
              <<25, Has(typing) /\ typing.cadenceVariance < 2000>>,
              <<20, Has(messaging) /\ messaging.avgSentenceLength > 80>>,
              <<15, Has(sessions) /\ sessions.sessionsPerDay < 3>>,
              <<10, Has(messaging) /\ messaging.questionRate > 20>>>>,
         wave |->
            <<<<25, Has(voice) /\ voice.speakingPace = "moderate">>,
              <<25, Has(typing) /\ typing.cadenceVariance > 2000
                        /\ typing.cadenceVariance < 5000>>,
              <<20, Has(voice) /\ Abs(voice.sentimentScore) < 30>>,
              <<15, Has(sessions) /\ sessions.avgSessionDurationMin > 10>>,
              <<15, Has(messaging) /\ messaging.vocabularyDiversity > 50>>>>,
         ember |->
            <<<<25, Has(messaging) /\ messaging.avgSentenceLength > 60>>,
              <<20, Has(messaging) /\ messaging.questionRate > 25>>,
              <<20, Has(messaging) /\ messaging.vocabularyDiversity > 60>>,
              <<20, Has(voice) /\ voice.dominantEmotions
                        \cap {"warmth", "care", "empathy"} # {}>>,
              <<15, Has(voice) /\ voice.vocabularyRichness > 70>>>>,
         storm |->
            <<<<30, Has(typing) /\ typing.cadenceVariance > 8000>>,
              <<25, Has(voice) /\ Abs(voice.sentimentScore) > 60>>,
              <<15, Has(messaging) /\ messaging.emojiRate > 80>>,
              <<15, Has(sessions) /\ sessions.sessionsPerDay > 5>>,
              <<15, Has(voice) /\ voice.speakingPace = "fast">>>>]

\* Which of the five terms count, as 0 and 1.
termBits(terms) == [i \in 1..5 |-> IF terms[i][2] THEN 1 ELSE 0]

\* The sum in hundredths of the terms that count.
termSum(terms) ==
    termBits(terms)[1] * terms[1][1] + termBits(terms)[2] * terms[2][1]
    + termBits(terms)[3] * terms[3][1] + termBits(terms)[4] * terms[4][1]
    + termBits(terms)[5] * terms[5][1]

\* The scores are sums of doubles: by how many units in the last place the
\* sum of the terms, added left to right, differs from the double nearest
\* to the decimal sum (0.3 + 0.15 is 0.44999999999999996, one below 0.45).
roundingUlps(archetype, bits) ==
    CASE archetype = "spark" /\ bits = <<0, 1, 1, 1, 1>> -> 1
      [] archetype = "spark"
            /\ bits \in {<<1, 0, 0, 0, 1>>, <<1, 0, 0, 1, 0>>} -> 0 - 1
      [] archetype = "anchor"
            /\ bits \in {<<0, 0, 1, 0, 1>>, <<1, 1, 0, 1, 0>>} -> 1
      [] archetype = "anchor"
            /\ bits \in {<<0, 0, 1, 1, 1>>, <<1, 0, 0, 1, 0>>,
                         <<1, 0, 0, 1, 1>>} -> 0 - 1
      [] archetype = "ember"
            /\ bits \in {<<0, 1, 1, 1, 0>>, <<0, 1, 1, 1, 1>>,
                         <<1, 1, 1, 1, 0>>} -> 1
      [] archetype = "storm"
            /\ bits \in {<<0, 1, 1, 1, 1>>, <<1, 1, 0, 0, 1>>,
                         <<1, 1, 0, 1, 0>>, <<1, 1, 0, 1, 1>>,
                         <<1, 1, 1, 0, 0>>, <<1, 1, 1, 0, 1>>,
                         <<1, 1, 1, 1, 0>>} -> 1
      [] archetype = "storm"
            /\ bits \in {<<0, 0, 1, 1, 1>>, <<1, 0, 0, 0, 1>>,
                         <<1, 0, 0, 1, 0>>, <<1, 0, 1, 0, 0>>} -> 0 - 1
      [] OTHER -> 0

\* A score as a number that orders as the doubles do: ten times the sum in
\* hundredths, plus the rounding of the sum.
archetypeScore(archetype, terms) ==
    10 * termSum(terms) + roundingUlps(archetype, termBits(terms))

\* Object.entries(scores): the insertion order of the scores object
ArchetypeOrder == <<"spark", "anchor", "wave", "ember", "storm">>

archetypeScores(signals) ==
    [i \in 1..5 |->
        <<ArchetypeOrder[i],
          archetypeScore(ArchetypeOrder[i],
                         archetypeTerms(signals)[ArchetypeOrder[i]])>>]

RECURSIVE insertDescending(_, _)
\* One step of a stable sort by descending score: the entry goes behind the
\* entries whose score is not lower.
insertDescending(entry, sorted) ==
    IF sorted = <<>> THEN <<entry>>
    ELSE IF Head(sorted)[2] >= entry[2]
        THEN <<Head(sorted)>> \o insertDescending(entry, Tail(sorted))
    ELSE <<entry>> \o sorted

RECURSIVE sortDescending(_)
\* entries.sort(([, a], [, b]) => b - a), which is stable
sortDescending(entries) ==
    IF entries = <<>> THEN <<>>
    ELSE insertDescending(entries[Len(entries)],
                          sortDescending(SubSeq(entries, 1, Len(entries) - 1)))

\* classifyArchetype: the first entry of the sorted scores ("wave" only if
\* there were no entry, and there are always five).
classifyArchetype(signals) ==
    LET sorted == sortDescending(archetypeScores(signals))
    IN  IF sorted = <<>> THEN "wave" ELSE sorted[1][1]

\* classifyCommunicationStyle, with its defaults for the absent bundles
classifyCommunicationStyle(signals) ==
    LET messaging == signals.messagingBehavior
        bio == signals.bioAnalysis
        voice == signals.voiceAnalysis
        avgLen == IF Has(messaging) THEN messaging.avgSentenceLength ELSE 40
        vocabDiv == IF Has(messaging) THEN messaging.vocabularyDiversity
                    ELSE 50
        emojiRate == IF Has(messaging) THEN messaging.emojiRate ELSE 0
        questionRate == IF Has(messaging) THEN messaging.questionRate ELSE 0
        bioStyle == IF Has(bio) THEN bio.style ELSE "moderate"
        richness == IF Has(voice) THEN voice.vocabularyRichness ELSE 0
    IN  IF ~Has(messaging) /\ ~Has(bio) THEN "expressive"
        ELSE IF avgLen < 30 /\ bioStyle = "minimal" THEN "minimal"
        ELSE IF vocabDiv > 60 /\ emojiRate < 20 /\ avgLen > 40 THEN "precise"
        ELSE IF vocabDiv > 70 /\ avgLen > 60 /\ richness > 70 THEN "poetic"
        ELSE IF questionRate > 30 /\ emojiRate > 30 THEN "witty"
        ELSE "expressive"

\* computeDepthScore, as a fraction of hundredths: the mean over the bundles
\* present of their parts, 0.5 when none of the three is present.
computeDepthScore(signals) ==
    LET messaging == signals.messagingBehavior
        voice == signals.voiceAnalysis
        browsing == signals.browsingBehavior
        score ==
            (IF Has(messaging)
                 THEN Min2(messaging.avgSentenceLength, 100) * 40
                      + messaging.questionRate * 30
                      + messaging.vocabularyDiversity * 30
             ELSE 0)
            + (IF Has(voice) THEN voice.vocabularyRichness * 50 ELSE 0)
            + (IF Has(browsing) THEN browsing.bioReadRate * 50 ELSE 0)
        factors == Cardinality({b \in {messaging, voice, browsing} : Has(b)})
    IN  IF factors > 0 THEN Frac(score, 100 * factors) ELSE Frac(50, 1)

\* computeCompleteness: the six parts as fractions and the rounded total
computeCompleteness(signals) ==
    LET voice == IF Has(signals.voiceAnalysis) THEN 1 ELSE 0
        bio == IF Has(signals.bioAnalysis) THEN 1 ELSE 0
        msgCount == IF Has(signals.messagingBehavior)
                        THEN signals.messagingBehavior.totalMessageCount
                    ELSE 0
        messaging == FracMin(Frac(msgCount, 50), Frac(1, 1))
        typing == IF Has(signals.typingBehavior) THEN 1 ELSE 0
        activeDays ==
            IF Has(signals.sessionTiming)
                THEN Cardinality({h \in DOMAIN signals.sessionTiming.peakHours :
                                     signals.sessionTiming.peakHours[h] > 10})
            ELSE 0
        sessions == FracMin(Frac(activeDays, 7), Frac(1, 1))
        browsing == IF Has(signals.browsingBehavior) THEN 1 ELSE 0
    IN  [voice |-> voice, bio |-> bio, messaging |-> messaging,
         typing |-> typing, sessions |-> sessions, browsing |-> browsing,
         total |-> Round(FracAdd(
                     Frac(voice * 25 + bio * 15 + typing * 10 + browsing * 15, 1),
                     FracAdd(FracMul(messaging, Frac(20, 1)),
                             FracMul(sessions, Frac(15, 1)))))]

(***************************************************************************)
(* SpecClassify: one rebuild derives the profile from bundles drawn from   *)
(* the sets below.                                                         *)
(***************************************************************************)
VoiceBundles ==
    {None} \cup
    [speakingPace : {"fast", "moderate", "slow"},
     sentimentScore : {0 - 70, 0, 70},
     dominantEmotions : {{}, {"warmth"}},
     vocabularyRichness : {50, 100}]

\* no bio, a bio of 4 words, a bio of 90 words
BioBundles == {None, bioSignalsOf(4), bioSignalsOf(90)}

MessagingBundles ==
    {None,
     [avgSentenceLength |-> 20, questionRate |-> 10, emojiRate |-> 0,
      vocabularyDiversity |-> 40, totalMessageCount |-> 10],
     [avgSentenceLength |-> 90, questionRate |-> 22, emojiRate |-> 10,
      vocabularyDiversity |-> 70, totalMessageCount |-> 60],
     [avgSentenceLength |-> 50, questionRate |-> 40, emojiRate |-> 90,
      vocabularyDiversity |-> 55, totalMessageCount |-> 30]}

TypingBundles ==
    {None} \cup [cadenceVariance : {1000, 3000, 9000}]

peakHoursAt(hours) == [h \in 0..23 |-> IF h \in hours THEN 80 ELSE 0]

SessionBundles ==
    {None,
     [peakHours |-> peakHoursAt({20, 21}), avgSessionDurationMin |-> 5,
      sessionsPerDay |-> 1],
     [peakHours |-> peakHoursAt(8..16), avgSessionDurationMin |-> 20,
      sessionsPerDay |-> 6]}

BrowsingBundles == {None, [bioReadRate |-> 60]}

ClassifyInit ==
    /\ signalsIn \in [voiceAnalysis : VoiceBundles,
                      bioAnalysis : BioBundles,
                      messagingBehavior : MessagingBundles,
                      typingBehavior : TypingBundles,
                      sessionTiming : SessionBundles,
                      browsingBehavior : BrowsingBundles]
    /\ signalsOut = None
    /\ CoreIdle /\ RateIdle /\ AdapterIdle /\ ChronoIdle /\ RpcIdle
    /\ BatchIdle /\ LateIdle

\* Steps 3, 5 and 8 of rebuildResonanceProfile on the aggregated bundles.
DeriveProfile ==
    /\ signalsOut = None
    /\ signalsOut' =
          [archetype |-> classifyArchetype(signalsIn),
           communicationStyle |-> classifyCommunicationStyle(signalsIn),
           depthSeekerScore |-> computeDepthScore(signalsIn),
           completeness |-> computeCompleteness(signalsIn),
           scores |-> archetypeScores(signalsIn)]
    /\ UNCHANGED <<signalsIn, outsideClassify>>

ClassifyNext == DeriveProfile

SpecClassify == ClassifyInit /\ [][ClassifyNext]_vars

AllBundlesAbsent ==
    \A f \in DOMAIN signalsIn : signalsIn[f] = None

\* C16: classifyArchetype returns the archetype with the highest score, the
\* first of them in the order spark, anchor, wave, ember, storm when several
\* share it, and wave when all six bundles are absent.
C16_HighestScoreOrWave ==
    signalsOut # None =>
        /\ \E i \in 1..5 :
              /\ signalsOut.archetype = ArchetypeOrder[i]
              /\ \A j \in 1..5 :
                    signalsOut.scores[j][2] <= signalsOut.scores[i][2]
              /\ \A j \in 1..(i - 1) :
                    signalsOut.scores[j][2] < signalsOut.scores[i][2]
        /\ AllBundlesAbsent => signalsOut.archetype = "wave"

\* C17: a cold-start rebuild (a bio of 4 words, a voice bundle with pace
\* fast, no other bundle) yields archetype spark, style minimal, depth score
\* 0.5 and completeness voice = 1, bio = 1, total = 40.
C17_ColdStartProfile ==
    (/\ signalsOut # None
     /\ signalsIn.bioAnalysis = bioSignalsOf(4)
     /\ signalsIn.voiceAnalysis # None
     /\ signalsIn.voiceAnalysis.speakingPace = "fast"
     /\ \A f \in {"messagingBehavior", "typingBehavior", "sessionTiming",
                  "browsingBehavior"} : signalsIn[f] = None)
    => /\ signalsOut.archetype = "spark"
       /\ signalsOut.communicationStyle = "minimal"
       /\ signalsOut.depthSeekerScore = Frac(50, 1)
       /\ signalsOut.completeness.voice = 1
       /\ signalsOut.completeness.bio = 1
       /\ signalsOut.completeness.total = 40

(***************************************************************************)
(* ERS component 2 on its own: computeChronobiologicalOverlap applied to   *)
(* the peak-hour arrays that the profile rows hold.  A row holds the       *)
(* column default [], the array a rebuild wrote (24 entries, the count of  *)
(* each hour over the largest count, which is at least 1 once three       *)
(* app_opened events with a clientTs exist), or a seeded array of a few    *)
(* entries with positive scores.  Scores are in tenths.                    *)
(***************************************************************************)

MaxWindows == 2
WindowHours == {2, 14, 23}
WindowScores == {5, 10}
WindowEntries == [hour : WindowHours, score : WindowScores]

\* A seeded array: up to MaxWindows entries, an hour possibly twice.
SeededWindows ==
    UNION {[1..n -> WindowEntries] : n \in 1..MaxWindows}

HourCounts ==
    {[h \in 0..23 |-> IF h = 2 THEN 2 ELSE IF h = 14 THEN 1 ELSE 0],
     [h \in 0..23 |-> IF h = 14 THEN 2 ELSE 0],
     [h \in 0..23 |-> IF h \in {2, 23} THEN 1 ELSE 0],
     [h \in 0..23 |-> IF h \in 8..16 THEN 2 ELSE 0]}

RECURSIVE maxCountOf(_, _)
maxCountOf(hourCounts, h) ==
    IF h > 23 THEN 1 ELSE Max2(hourCounts[h], maxCountOf(hourCounts, h + 1))

\* peakHours of aggregateSessionSignals as the rebuild stores it: entry
\* h + 1 is hour h with hourCounts[h] / maxCount.
sessionWindows(hourCounts) ==
    [i \in 1..24 |->
        [hour |-> i - 1,
         score |-> (10 * hourCounts[i - 1]) \div maxCountOf(hourCounts, 0)]]

PeakArrays ==
    {<<>>} \cup SeededWindows \cup {sessionWindows(c) : c \in HourCounts}

ChronoInit ==
    /\ chronoIn \in [peakA : PeakArrays, peakB : PeakArrays]
    /\ chronoOut = None
    /\ CoreIdle /\ RateIdle /\ AdapterIdle /\ ClassifyIdle /\ RpcIdle
    /\ BatchIdle /\ LateIdle

CallChronobiologicalOverlap ==
    /\ chronoOut = None
    /\ chronoOut' =
          [result |-> computeChronobiologicalOverlap(chronoIn.peakA,
                                                     chronoIn.peakB)]
    /\ UNCHANGED <<chronoIn, outsideChrono>>

ChronoNext == CallChronobiologicalOverlap

SpecChrono == ChronoInit /\ [][ChronoNext]_vars

\* The hours of the 24-slot array where the array holds a nonzero score.
nonzeroSlots(peak) == {h \in 0..23 : slot(peak, h) # 0}

C19_WitnessEqual ==
    /\ chronoOut # None
    /\ chronoIn.peakA = chronoIn.peakB
    /\ Len(chronoIn.peakA) = 24
    /\ chronoOut.result = <<1, 1>>

C19_WitnessDisjoint ==
    /\ chronoOut # None
    /\ Len(chronoIn.peakA) > 0 /\ Len(chronoIn.peakB) > 0
    /\ nonzeroSlots(chronoIn.peakA) \cap nonzeroSlots(chronoIn.peakB) = {}
    /\ chronoOut.result = <<0, 1>>

(***************************************************************************)
(* The tRPC layer: the context of a request, the enforceAuth middleware    *)
(* and the procedures of the app router.  A call is one step: the context  *)
(* is created (auth() decodes the session token, the strategy is "jwt", so *)
(* it reads no table), the middlewares run in the order the procedure      *)
(* lists them (enforceAuth, then the input parser), then the body.         *)
(* rpcOut records what the call did: its input and outcome, whether the    *)
(* body ran, the queries the body sent and the getDiscoveryFeed calls it   *)
(* made.  An input object is a function from the fields given to their     *)
(* values, so an optional field is one outside its domain.                 *)
(***************************************************************************)

RpcUsers == {1, 2}
\* The users that can have a row; the others' rows are gone.
RowUsers == {1}
NoUser == 0 - 1
MaxTracked == 1

\* What auth() can return: no session, a session without a user, a
\* session of a user.
Sessions == {None, [user |-> None]} \cup {[user |-> [id |-> u]] : u \in RpcUsers}

\* A string of n characters.
RECURSIVE repeated(_, _)
repeated(char, n) ==
    IF n = 0 THEN ""
    ELSE IF n = 1 THEN char
    ELSE repeated(char, n \div 2) \o repeated(char, n - n \div 2)

\* Display names of 1, 2, 50 and 51 characters, bios of 500 and 501.
DisplayNames == {"A", "Al", repeated("n", 50), repeated("n", 51)}
Bios == {repeated("b", 500), repeated("b", 501)}

\* The inputs of users.updateProfile that give at least one field.
UpdateProfileInputs ==
    [{"displayName"} -> DisplayNames] \cup [{"bio"} -> Bios]
        \cup {[displayName |-> "Al", bio |-> b] : b \in Bios}
        \cup {[displayName |-> d, bio |-> repeated("b", 500)] :
                d \in DisplayNames}

\* The lengths of the events array of events.track.
TrackInputs == [events : {0, 1, 100, 101}]

\* The inputs of feed.discover: no limit, or a limit.
DiscoverInputs == {<<>>} \cup [{"limit"} -> {0, 1, 50, 51}]

RpcUserRows ==
    [displayName : {"Bea"}, bio : {""}, onboardingComplete : BOOLEAN]

\* enforceAuth: TRUE when it calls next, FALSE when it throws UNAUTHORIZED.
enforceAuthSessionOnly(ctxSession) == ctxSession # None

enforceAuth(ctxSession) == ctxSession # None /\ ctxSession.user # None

\* ctx.session.user.id in a body; behind enforceAuth the user is there.
sessionUserId(ctxSession) ==
    IF ctxSession # None /\ ctxSession.user # None THEN ctxSession.user.id
    ELSE NoUser

ProtectedProcedures ==
    {"users.getMe", "users.updateProfile", "users.completeOnboarding",
     "events.track", "feed.discover", "getSession"}

\* The input schemas: TRUE when the parser accepts the input.
given(input, field) == field \in DOMAIN input

updateProfileSchema(input) ==
    /\ given(input, "displayName") =>
          Len(input.displayName) >= 2 /\ Len(input.displayName) <= 50
    /\ given(input, "bio") => Len(input.bio) <= 500

trackSchema(input) == input.events <= 100

discoverSchemaNoMax(input) == given(input, "limit") => input.limit >= 1

discoverSchema(input) ==
    given(input, "limit") => input.limit >= 1 /\ input.limit <= 50

Unauthorized(procedure, input) ==
    [procedure |-> procedure, input |-> input, code |-> "UNAUTHORIZED",
     bodyRan |-> FALSE, dbReads |-> 0, dbWrites |-> 0, feedCalls |-> 0,
     data |-> None]

BadRequest(procedure, input) ==
    [procedure |-> procedure, input |-> input, code |-> "BAD_REQUEST",
     bodyRan |-> FALSE, dbReads |-> 0, dbWrites |-> 0, feedCalls |-> 0,
     data |-> None]

Returned(procedure, input, dbReads, dbWrites, feedCalls, data) ==
    [procedure |-> procedure, input |-> input, code |-> "OK",
     bodyRan |-> TRUE, dbReads |-> dbReads, dbWrites |-> dbWrites,
     feedCalls |-> feedCalls, data |-> data]

\* A protected procedure: the body's effect on the tables and on rpcOut
\* only behind the middleware and the input parser.
protectedCall(ctxSession, procedure, input, inputValid, dbAfter, out) ==
    /\ session' = ctxSession
    /\ IF ~enforceAuth(ctxSession)
       THEN rpcOut' = Unauthorized(procedure, input) /\ rpcDb' = rpcDb
       ELSE IF ~inputValid
       THEN rpcOut' = BadRequest(procedure, input) /\ rpcDb' = rpcDb
       ELSE rpcOut' = out /\ rpcDb' = dbAfter
    /\ UNCHANGED outsideRpc

rowOf(userId) ==
    IF userId \in DOMAIN rpcDb.users THEN rpcDb.users[userId] ELSE None

\* update(users).set(values).where(id = userId): the columns given take
\* their new values in the row of that id, if there is one.
usersUpdated(userId, values) ==
    IF userId \in DOMAIN rpcDb.users
    THEN [rpcDb EXCEPT !.users[userId] =
             [column \in DOMAIN @ |->
                 IF column \in DOMAIN values THEN values[column]
                 ELSE @[column]]]
    ELSE rpcDb

HealthCheck(ctxSession) ==
    /\ session' = ctxSession
    /\ rpcOut' = Returned("healthCheck", <<>>, 0, 0, 0, [status |-> "ok"])
    /\ UNCHANGED <<rpcDb, outsideRpc>>

GetSession(ctxSession) ==
    protectedCall(ctxSession, "getSession", <<>>, TRUE, rpcDb,
                  Returned("getSession", <<>>, 0, 0, 0, ctxSession))

UsersGetMe(ctxSession) ==
    protectedCall(ctxSession, "users.getMe", <<>>, TRUE, rpcDb,
                  Returned("users.getMe", <<>>, 1, 0, 0,
                           rowOf(sessionUserId(ctxSession))))

UsersUpdateProfile(ctxSession, input) ==
    protectedCall(ctxSession, "users.updateProfile", input,
                  updateProfileSchema(input),
                  usersUpdated(sessionUserId(ctxSession), input),
                  Returned("users.updateProfile", input, 0, 1, 0, None))

UsersCompleteOnboarding(ctxSession) ==
    protectedCall(ctxSession, "users.completeOnboarding", <<>>, TRUE,
                  usersUpdated(sessionUserId(ctxSession),
                               [onboardingComplete |-> TRUE]),
                  Returned("users.completeOnboarding", <<>>, 0, 1, 0, None))

\* One row per event is inserted, in one statement, only when there are
\* any; the table is kept as the sizes of the batches inserted, at most
\* MaxTracked of a user.
EventsTrack(ctxSession, input) ==
    LET userId == sessionUserId(ctxSession)
        inserts == userId \in RpcUsers /\ input.events > 0
    IN  /\ (inserts /\ trackSchema(input))
            => Len(rpcDb.behavioralEvents[userId]) < MaxTracked
        /\ protectedCall(ctxSession, "events.track", input,
                         trackSchema(input),
                         IF inserts
                         THEN [rpcDb EXCEPT !.behavioralEvents[userId] =
                                  Append(@, input.events)]
                         ELSE rpcDb,
                         Returned("events.track", input, 0,
                                  IF input.events > 0 THEN 1 ELSE 0, 0,
                                  [tracked |-> input.events]))

FeedDiscover(ctxSession, input) ==
    protectedCall(ctxSession, "feed.discover", input, discoverSchema(input),
                  rpcDb,
                  Returned("feed.discover", input, 0, 0, 1,
                           [userId |-> sessionUserId(ctxSession)]))

RpcInit ==
    /\ session = None
    /\ rpcDb \in [users : UNION {[ids -> RpcUserRows] : ids \in SUBSET RowUsers},
                  behavioralEvents : {[u \in RpcUsers |-> <<>>]}]
    /\ rpcOut = None
    /\ CoreIdle /\ RateIdle /\ AdapterIdle /\ ClassifyIdle /\ ChronoIdle
    /\ BatchIdle /\ LateIdle

RpcNext ==
    \E ctxSession \in Sessions :
        \/ HealthCheck(ctxSession)
        \/ GetSession(ctxSession)
        \/ UsersGetMe(ctxSession)
        \/ \E input \in UpdateProfileInputs :
              UsersUpdateProfile(ctxSession, input)
        \/ UsersCompleteOnboarding(ctxSession)
        \/ \E input \in TrackInputs : EventsTrack(ctxSession, input)
        \/ \E input \in DiscoverInputs : FeedDiscover(ctxSession, input)

SpecRpc == RpcInit /\ [][RpcNext]_vars

\* C20: a call of a protected procedure without a session user fails with
\* UNAUTHORIZED before the body runs: the body did not run, the tables are
\* as they were, no query was sent and no feed was computed.
C20_UnauthorizedBeforeBody ==
    [][(sessionUserId(session') = NoUser
            /\ rpcOut'.procedure \in ProtectedProcedures)
        => /\ rpcOut'.code = "UNAUTHORIZED"
           /\ ~rpcOut'.bodyRan
           /\ rpcOut'.dbReads = 0 /\ rpcOut'.dbWrites = 0
           /\ rpcOut'.feedCalls = 0
           /\ rpcOut'.data = None
           /\ rpcDb' = rpcDb]_vars

\* feed.discover was called with a session that has no user, after a
\* signed-in call had changed the tables.
C20_Witness ==
    /\ rpcOut # None
    /\ rpcOut.procedure = "feed.discover"
    /\ session = [user |-> None]
    /\ rpcOut.code = "UNAUTHORIZED"
    /\ \E u \in RpcUsers : Len(rpcDb.behavioralEvents[u]) > 0

\* Each protected procedure is reached without a session at all.
C20_WitnessUpdate ==
    /\ rpcOut # None
    /\ rpcOut.procedure = "users.updateProfile"
    /\ session = None
    /\ rpcOut.code = "UNAUTHORIZED"

\* The inputs the statement of C21 calls out of range.
outOfRange(call) ==
    \/ call.procedure = "events.track" /\ call.input.events > 100
    \/ /\ call.procedure = "feed.discover"
       /\ "limit" \in DOMAIN call.input
       /\ call.input.limit \notin 1..50
    \/ /\ call.procedure = "users.updateProfile"
       /\ \/ /\ "displayName" \in DOMAIN call.input
             /\ Len(call.input.displayName) \notin 2..50
          \/ "bio" \in DOMAIN call.input /\ Len(call.input.bio) > 500

\* C21: a call whose input is out of range is rejected with no side
\* effects: the body does not run, no behavioural event is inserted, no
\* user row is updated and getDiscoveryFeed, the only writer of feed cache
\* entries, is not called.
C21_OutOfRangeRejected ==
    [][outOfRange(rpcOut')
        => /\ rpcOut'.code \in {"BAD_REQUEST", "UNAUTHORIZED"}
           /\ ~rpcOut'.bodyRan
           /\ rpcOut'.dbWrites = 0 /\ rpcOut'.feedCalls = 0
           /\ rpcDb' = rpcDb]_vars

\* A signed-in user with a row and tracked events asked for 51 profiles
\* and was refused by the parser.
C21_Witness ==
    /\ rpcOut # None
    /\ rpcOut.procedure = "feed.discover"
    /\ rpcOut.input = [limit |-> 51]
    /\ rpcOut.code = "BAD_REQUEST"
    /\ sessionUserId(session) \in DOMAIN rpcDb.users
    /\ Len(rpcDb.behavioralEvents[sessionUserId(session)]) > 0

\* The other out-of-range inputs are refused by the parser as well.
C21_WitnessTrack ==
    /\ rpcOut # None
    /\ rpcOut.procedure = "events.track"
    /\ rpcOut.input.events = 101
    /\ rpcOut.code = "BAD_REQUEST"

C21_WitnessBio ==
    /\ rpcOut # None
    /\ rpcOut.procedure = "users.updateProfile"
    /\ rpcOut.input = [displayName |-> "Al", bio |-> repeated("b", 501)]
    /\ rpcOut.code = "BAD_REQUEST"
    /\ sessionUserId(session) \in DOMAIN rpcDb.users

(***************************************************************************)
(* CHM: processAllConversations.  The batch enumerates the conversations   *)
(* whose lastMessageAt is at most 7 days old, then awaits one              *)
(* analyzeConversationHealth pass per conversation inside a try/catch and  *)
(* counts the new states; batch holds its position, its list, its counters *)
(* and, per conversation, what its pass did.                               *)
(***************************************************************************)

BatchConvs == {"c1", "c2", "c3"}

\* The rows at the start: a new conversation without a message, a warming
\* one with a message just sent, dormant ones whose last message is 4, 7
\* and 8 days old.
BatchRows ==
    {[healthState |-> h, pendingNudge |-> Null, nudgeGeneratedAt |-> NoTime,
      lastMessageAt |-> t] :
        <<h, t>> \in {<<"warming", NoTime>>, <<"warming", 0>>,
                      <<"dormant", 4 * HoursPerDay>>,
                      <<"dormant", 7 * HoursPerDay>>,
                      <<"dormant", 8 * HoursPerDay>>}}

IdleBatch ==
    [pc |-> "idle", list |-> <<>>, next |-> 1, healthy |-> 0, cooling |-> 0,
     dormant |-> 0, nudgesGenerated |-> 0,
     outcome |-> [c \in BatchConvs |-> "none"], returned |-> None]

\* An enumeration that keeps the conversations of the last 2 days only.
activeWithin2Days(row) ==
    row.lastMessageAt # NoTime /\ row.lastMessageAt <= 2 * HoursPerDay

\* gte(conversations.lastMessageAt, sevenDaysAgo): a row without a
\* lastMessageAt does not match.
activeWithin7Days(row) ==
    row.lastMessageAt # NoTime /\ row.lastMessageAt <= 7 * HoursPerDay

\* The lists findMany may return for these rows: the query gives no
\* order.
enumerations(ids) ==
    {list \in [1..Cardinality(ids) -> ids] :
        \A i, j \in DOMAIN list : list[i] = list[j] => i = j}

\* The switch on result.newState and the nudge counter.
counted(b, c, result) ==
    [b EXCEPT
        !.healthy = IF result.newState \in {"active", "warming", "revived"}
                    THEN @ + 1 ELSE @,
        !.cooling = IF result.newState = "cooling" THEN @ + 1 ELSE @,
        !.dormant = IF result.newState = "dormant" THEN @ + 1 ELSE @,
        !.nudgesGenerated =
            IF result.nudge # Null /\ result.nudge # "" THEN @ + 1 ELSE @,
        !.outcome[c] = result.newState,
        !.next = @ + 1]

\* A batch without the try/catch around the pass.
failureRaised(b, c) == [b EXCEPT !.pc = "raised", !.outcome[c] = "failed"]

\* The catch: the failure is logged and the loop goes on.
failureLogged(b, c) == [b EXCEPT !.outcome[c] = "failed", !.next = @ + 1]

BatchStart ==
    /\ batch.pc = "idle"
    /\ \E list \in enumerations({c \in BatchConvs :
                                    activeWithin7Days(conv[c])}) :
          batch' = [batch EXCEPT !.pc = "loop", !.list = list]
    /\ UNCHANGED <<conv, chmOut, outsideCHM>>

\* One turn of the loop: the pass of the next conversation returns.
BatchAnalyze ==
    /\ batch.pc = "loop"
    /\ batch.next <= Len(batch.list)
    /\ AnalyzeConversationHealth(batch.list[batch.next])
    /\ batch' = counted(batch, batch.list[batch.next], chmOut')

\* One turn of the loop: the pass of the next conversation raises.
BatchAnalyzeFails ==
    /\ batch.pc = "loop"
    /\ batch.next <= Len(batch.list)
    /\ AnalyzeConversationHealthThrows(batch.list[batch.next])
    /\ batch' = failureLogged(batch, batch.list[batch.next])

BatchReturn ==
    /\ batch.pc = "loop"
    /\ batch.next > Len(batch.list)
    /\ batch' = [batch EXCEPT
                    !.pc = "returned",
                    !.returned = [total |-> Len(batch.list),
                                  healthy |-> batch.healthy,
                                  cooling |-> batch.cooling,
                                  dormant |-> batch.dormant,
                                  nudgesGenerated |-> batch.nudgesGenerated]]
    /\ UNCHANGED <<conv, chmOut, outsideCHM>>

BatchInit ==
    /\ conv \in [BatchConvs -> BatchRows]
    /\ chmOut = None
    /\ batch = IdleBatch
    /\ StateIdle /\ StoreIdle /\ ERSIdle /\ DivIdle /\ FeedIdle /\ RPBIdle
    /\ RestIdle

BatchNext ==
    \/ BatchStart
    \/ BatchAnalyze
    \/ BatchAnalyzeFails
    \/ BatchReturn

SpecBatch == BatchInit /\ [][BatchNext]_vars

\* The conversations of the list, as a set.
listed == {batch.list[i] : i \in DOMAIN batch.list}

\* What holds of the batch at every moment: it has not raised, its list is
\* the conversations with a message in the last 7 days, and once it has
\* returned every listed conversation has had its turn, total is the
\* number listed and healthy + cooling + dormant is the number of passes
\* that returned, each counted under the state its pass left in the row.
batchOnCourse ==
    /\ batch.pc \in {"idle", "loop", "returned"}
    /\ batch.pc # "idle" =>
          listed = {c \in BatchConvs :
                       conv[c].lastMessageAt # NoTime
                           /\ conv[c].lastMessageAt <= 7 * HoursPerDay}
    /\ \A c \in BatchConvs \ listed : batch.outcome[c] = "none"
    /\ batch.pc = "returned" =>
          /\ \A c \in listed : batch.outcome[c] # "none"
          /\ batch.returned.total = Cardinality(listed)
          /\ batch.returned.healthy + batch.returned.cooling
                + batch.returned.dormant
                = Cardinality({c \in listed : batch.outcome[c] # "failed"})
          /\ batch.returned.healthy =
                Cardinality({c \in listed : batch.outcome[c]
                                \in {"active", "warming", "revived"}})
          /\ batch.returned.cooling =
                Cardinality({c \in listed : batch.outcome[c] = "cooling"})
          /\ batch.returned.dormant =
                Cardinality({c \in listed : batch.outcome[c] = "dormant"})
          /\ \A c \in listed :
                batch.outcome[c] # "failed"
                    => conv[c].healthState = batch.outcome[c]

\* What holds of every turn of the loop: it takes the next conversation of
\* the list, changes no row but that one, and stays in the loop; a turn
\* whose pass failed changes no row and no counter.
turnKeepsOthers ==
    batch.pc = "loop" /\ batch'.pc # "returned" =>
        LET c == batch.list[batch.next]
        IN  /\ batch'.pc = "loop"
            /\ batch'.next = batch.next + 1
            /\ batch'.list = batch.list
            /\ batch.outcome[c] = "none" /\ batch'.outcome[c] # "none"
            /\ \A other \in BatchConvs \ {c} :
                  /\ conv'[other] = conv[other]
                  /\ batch'.outcome[other] = batch.outcome[other]
            /\ batch'.outcome[c] = "failed" =>
                  /\ conv' = conv
                  /\ batch'.healthy = batch.healthy
                  /\ batch'.cooling = batch.cooling
                  /\ batch'.dormant = batch.dormant

\* C24: processAllConversations processes every conversation with a
\* message in the last 7 days even when passes fail: a failed pass does
\* not stop the batch or change the outcome for the others, the batch
\* returns rather than raises, total is the number enumerated and healthy
\* + cooling + dormant is the number analysed without error.
C24_BatchSurvivesFailures == []batchOnCourse /\ [][turnKeepsOthers]_vars

\* The batch returned after the pass of the second of three listed
\* conversations had failed and the third had been analysed.
C24_Witness ==
    /\ batch.pc = "returned"
    /\ batch.list = <<"c1", "c2", "c3">>
    /\ batch.outcome["c1"] \notin {"none", "failed"}
    /\ batch.outcome["c2"] = "failed"
    /\ batch.outcome["c3"] \notin {"none", "failed"}
    /\ batch.returned.total = 3
    /\ batch.returned.healthy + batch.returned.cooling
          + batch.returned.dormant = 2

(***************************************************************************)
(* RPB: aggregateVoiceSignals                                              *)
(*                                                                         *)
(* voiceIn holds the users row and the behavioral_events rows of one user, *)
(* in insertion order; server_ts defaults to now(), so the rows of one     *)
(* insert share it and a later insert never has an earlier one.            *)
(***************************************************************************)

\* The most events one user has recorded.
MaxEvents == 3
\* The latest server_ts, in ticks.
MaxServerTs == 2

VoiceEventTypes == {"voice_note_analyzed", "app_opened"}

\* Payloads: a full analysis, and one that holds the word count alone.
FullPayload ==
    [wordCount |-> 42, vocabularyRichness |-> 8, sentimentScore |-> 5,
     dominantEmotions |-> <<"joy">>, speakingPace |-> "fast"]
PartialPayload == [wordCount |-> 7]
VoicePayloads == {None, FullPayload, PartialPayload}

VoiceEvents ==
    [eventType : VoiceEventTypes, serverTs : 1..MaxServerTs,
     eventData : VoicePayloads]

EventLists ==
    {events \in UNION {[1..n -> VoiceEvents] : n \in 0..MaxEvents} :
        \A i \in 1..Len(events) - 1 :
            events[i].serverTs <= events[i + 1].serverTs}

VoiceUsers == {None, [voiceBioUrl |-> Null], [voiceBioUrl |-> "url"]}

\* data.key ?? fallback
orDefault(data, key, fallback) ==
    IF key \in DOMAIN data THEN data[key] ELSE fallback

\* src/unnamed/part_013:149-155; the two scores are in tenths.
bundleOf(data) ==
    [transcriptWordCount |-> orDefault(data, "wordCount", 100),
     vocabularyRichness |-> orDefault(data, "vocabularyRichness", 6),
     sentimentScore |-> orDefault(data, "sentimentScore", 3),
     dominantEmotions |-> orDefault(data, "dominantEmotions", <<"curiosity">>),
     speakingPace |-> orDefault(data, "speakingPace", "moderate")]

\* src/unnamed/part_013:159-165
DefaultVoiceBundle ==
    [transcriptWordCount |-> 0, vocabularyRichness |-> 5, sentimentScore |-> 0,
     dominantEmotions |-> <<>>, speakingPace |-> "moderate"]

\* findMany(orderBy desc(serverTs), limit 1): the lists the query may return,
\* one row with the latest server_ts, whatever its type.
newestEvents(events) ==
    IF Len(events) = 0 THEN {<<>>}
    ELSE {<<events[i]>> : i \in {j \in 1..Len(events) :
              \A k \in 1..Len(events) :
                  events[k].serverTs <= events[j].serverTs}}

\* events.find(e => e.eventType === "voice_note_analyzed")
findVoiceEvent(queried) ==
    LET hits == {i \in 1..Len(queried) :
                    queried[i].eventType = "voice_note_analyzed"}
    IN  IF hits = {} THEN None
        ELSE queried[CHOOSE i \in hits : \A j \in hits : i <= j]

\* src/unnamed/part_013:125-166, given what the query returned.
aggregateVoiceSignals(user, queried) ==
    LET voiceEvent == findVoiceEvent(queried)
    IN  IF user = None \/ user.voiceBioUrl = Null THEN None
        ELSE IF voiceEvent # None /\ voiceEvent.eventData # None
             THEN bundleOf(voiceEvent.eventData)
             ELSE DefaultVoiceBundle

VoiceInit ==
    /\ voiceIn \in [user : VoiceUsers, events : EventLists]
    /\ voiceOut = None
    /\ CoreIdle /\ EarlyIdle /\ BatchIdle /\ DailyIdle /\ HealthIdle
    /\ LastIdle

CallAggregateVoiceSignals ==
    /\ voiceOut = None
    /\ \E queried \in newestEvents(voiceIn.events) :
        voiceOut' = [queried |-> queried,
                     bundle |-> aggregateVoiceSignals(voiceIn.user, queried)]
    /\ UNCHANGED <<voiceIn, outsideVoice>>

VoiceNext == CallAggregateVoiceSignals

SpecVoice == VoiceInit /\ [][VoiceNext]_vars

hasVoiceUrl == voiceIn.user # None /\ voiceIn.user.voiceBioUrl # Null

analysisEvents ==
    {i \in 1..Len(voiceIn.events) :
        voiceIn.events[i].eventType = "voice_note_analyzed"}

\* The analysis events no other analysis event came after.
latestAnalyses ==
    {i \in analysisEvents :
        \A j \in analysisEvents :
            voiceIn.events[j].serverTs <= voiceIn.events[i].serverTs}

\* C28: for a user with a voice URL and an analysis event, the bundle is
\* built from the payload of the most recent voice_note_analyzed event,
\* whatever was recorded after it, and the default bundle is returned only
\* when no analysis event was ever recorded (one recorded without a payload
\* has nothing to build from and is not counted).
\* The code does not do this: the query keeps the one newest event of any
\* type, so an analysis followed by an app_opened gives the default bundle.
C28_BundleFromLatestAnalysis ==
    (voiceOut # None /\ hasVoiceUrl) =>
        /\ \A i \in latestAnalyses :
              voiceIn.events[i].eventData # None
                  => \E j \in latestAnalyses :
                        /\ voiceIn.events[j].eventData # None
                        /\ voiceOut.bundle = bundleOf(voiceIn.events[j].eventData)
        /\ voiceOut.bundle = DefaultVoiceBundle
              => \A i \in analysisEvents : voiceIn.events[i].eventData = None

\* What the code does: the bundle comes from the newest event alone, when
\* that is an analysis with a payload, and is the default bundle otherwise.
C28_BundleFromNewestEventOnly ==
    (voiceOut # None /\ hasVoiceUrl) =>
        \E i \in 1..Len(voiceIn.events) + 1 :
            IF i > Len(voiceIn.events)
            THEN voiceIn.events = <<>> /\ voiceOut.bundle = DefaultVoiceBundle
            ELSE /\ \A k \in 1..Len(voiceIn.events) :
                       voiceIn.events[k].serverTs <= voiceIn.events[i].serverTs
                 /\ voiceOut.bundle =
                        IF /\ voiceIn.events[i].eventType = "voice_note_analyzed"
                           /\ voiceIn.events[i].eventData # None
                        THEN bundleOf(voiceIn.events[i].eventData)
                        ELSE DefaultVoiceBundle

\* An analysis with a full payload, then a later app_opened: the default
\* bundle came back.
C28_AnalysisHidden ==
    /\ voiceOut # None /\ hasVoiceUrl
    /\ Len(voiceIn.events) = 2
    /\ voiceIn.events[1].eventType = "voice_note_analyzed"
    /\ voiceIn.events[1].eventData = FullPayload
    /\ voiceIn.events[1].serverTs = 1
    /\ voiceIn.events[2].eventType = "app_opened"
    /\ voiceIn.events[2].serverTs = 2
    /\ voiceOut.bundle = DefaultVoiceBundle

(***************************************************************************)
(* RPB: rebuildAllProfilesDaily                                            *)
(*                                                                         *)
(* The users rows hold lastActiveAt, and the resonance_profiles rows       *)
(* lastRecalculatedAt, as the number of hours before now (NoTime: null).   *)
(* A profile row and a vector count the writes they received, so that any  *)
(* write shows.  Each step.run of the job is one action, the rebuild it    *)
(* awaits included; hours pass between the steps.                          *)
(***************************************************************************)

DailyUsers == {1, 2}

\* The hours that pass during one execution of the job, at most.
MaxHoursPassed == 2

\* Active, last active 7 days ago, deleted, not onboarded.
DailyUserRows ==
    {[lastActiveAt |-> a, deleted |-> d, onboardingComplete |-> o] :
        <<a, d, o>> \in {<<1, FALSE, TRUE>>, <<7 * HoursPerDay, FALSE, TRUE>>,
                         <<1, TRUE, TRUE>>, <<1, FALSE, FALSE>>}}

\* No row, a row never recalculated, rows recalculated 47, 48, 49 hours ago.
DailyProfiles ==
    {None} \cup [lastRecalculatedAt : {NoTime, 47, 48, 49}, writes : {0}]

IdleDaily ==
    [pc |-> "idle", activeUsers |-> <<>>, next |-> 1, rebuilt |-> 0,
     skipped |-> 0, failed |-> 0, hoursPassed |-> 0, steps |-> <<>>]

\* src/inngest/functions/rebuild-profile.ts:70-73
activeUser(row) ==
    /\ row # None
    /\ row.lastActiveAt < 7 * HoursPerDay
    /\ ~row.deleted
    /\ row.onboardingComplete

\* A staleness check with the 24 hours of the job's comment.
isProfileStaleAfter24h(profile) ==
    \/ profile = None
    \/ profile.lastRecalculatedAt = NoTime
    \/ profile.lastRecalculatedAt > 24

\* src/unnamed/part_013:650-662
isProfileStale(profile) ==
    \/ profile = None
    \/ profile.lastRecalculatedAt = NoTime
    \/ profile.lastRecalculatedAt > 48

\* What one rebuildResonanceProfile call may do: complete with or without
\* the vector (a failed embedding is caught), raise before it wrote
\* anything, raise at the profile write after the vector was upserted.
RebuildOutcomes ==
    {"rebuilt", "rebuiltNoVector", "raisedEarly", "raisedAtWrite"}

upsertedVector(store, userId) ==
    [store EXCEPT ![userId] =
        IF store[userId] = None THEN [upserts |-> 1]
        ELSE [upserts |-> store[userId].upserts + 1]]

\* The update or insert of step 8: lastRecalculatedAt is now.
writtenProfile(rows, userId) ==
    [rows EXCEPT ![userId] =
        [lastRecalculatedAt |-> 0,
         writes |-> IF rows[userId] = None THEN 1
                    ELSE rows[userId].writes + 1]]

dailyKeys(userId) == {userKey(userId, "profile"), userKey(userId, "feed_ranked")}

DailyInit ==
    /\ userRows \in [DailyUsers -> DailyUserRows]
    /\ profiles \in [DailyUsers -> DailyProfiles]
    /\ vectors = [u \in DailyUsers |->
                    IF profiles[u] = None THEN None ELSE [upserts |-> 0]]
    /\ cache = [k \in UNION {dailyKeys(u) : u \in DailyUsers} |-> "cached"]
    /\ daily = IdleDaily
    /\ StateIdle /\ CHMIdle /\ ERSIdle /\ DivIdle /\ FeedIdle
    /\ rb = None /\ behaviour = None
    /\ EarlyIdle /\ BatchIdle /\ VoiceIdle /\ HealthIdle /\ LastIdle

\* step.run("get-active-users")
DailyStart ==
    /\ daily.pc = "idle"
    /\ \E list \in enumerations({u \in DailyUsers : activeUser(userRows[u])}) :
        daily' = [daily EXCEPT !.pc = "running", !.activeUsers = list]
    /\ UNCHANGED <<profiles, vectors, cache, outsideDaily>>

\* step.run(`rebuild-${userId}`)
DailyStep ==
    /\ daily.pc = "running"
    /\ daily.next <= Len(daily.activeUsers)
    /\ LET userId == daily.activeUsers[daily.next]
           stale == isProfileStale(profiles[userId])
           after(outcome) ==
               [daily EXCEPT
                   !.next = @ + 1,
                   !.steps = Append(@, [userId |-> userId,
                                        profile |-> profiles[userId],
                                        outcome |-> outcome])]
       IN  IF ~stale
           THEN /\ daily' = [after("skipped") EXCEPT !.skipped = @ + 1]
                /\ UNCHANGED <<profiles, vectors, cache>>
           ELSE \E outcome \in RebuildOutcomes :
                   /\ vectors' =
                        IF outcome \in {"rebuilt", "raisedAtWrite"}
                        THEN upsertedVector(vectors, userId) ELSE vectors
                   /\ profiles' =
                        IF outcome \in {"rebuilt", "rebuiltNoVector"}
                        THEN writtenProfile(profiles, userId) ELSE profiles
                   /\ cache' =
                        IF outcome \in {"rebuilt", "rebuiltNoVector"}
                        THEN cacheInvalidatePattern(cache, userId) ELSE cache
                   /\ daily' =
                        IF outcome \in {"rebuilt", "rebuiltNoVector"}
                        THEN [after(outcome) EXCEPT !.rebuilt = @ + 1]
                        ELSE [after(outcome) EXCEPT !.failed = @ + 1]
    /\ UNCHANGED outsideDaily

\* An hour passes between two steps of the job.
DailyHourPasses ==
    /\ daily.pc = "running"
    /\ daily.hoursPassed < MaxHoursPassed
    /\ daily' = [daily EXCEPT !.hoursPassed = @ + 1]
    /\ profiles' = [u \in DOMAIN profiles |->
                      IF profiles[u] = None
                         \/ profiles[u].lastRecalculatedAt = NoTime
                      THEN profiles[u]
                      ELSE [profiles[u] EXCEPT !.lastRecalculatedAt = @ + 1]]
    /\ UNCHANGED <<vectors, cache, outsideDaily>>

DailyReturn ==
    /\ daily.pc = "running"
    /\ daily.next > Len(daily.activeUsers)
    /\ daily' = [daily EXCEPT !.pc = "returned"]
    /\ UNCHANGED <<profiles, vectors, cache, outsideDaily>>

DailyNext ==
    \/ DailyStart
    \/ DailyStep
    \/ DailyHourPasses
    \/ DailyReturn

SpecDaily == DailyInit /\ [][DailyNext]_vars

\* The profile is there, was recalculated, and not more than 48 hours ago.
freshProfile(profile) ==
    /\ profile # None
    /\ profile.lastRecalculatedAt # NoTime
    /\ profile.lastRecalculatedAt <= 48

\* The step of the job that handles the user whose turn it is.
dailyStepTaken == daily.pc = "running" /\ daily'.next = daily.next + 1

turnUser == daily.activeUsers[daily.next]

stepsOf(userId) ==
    {i \in DOMAIN daily.steps : daily.steps[i].userId = userId}

C29_WitnessTurnedStale ==
    \E i \in DOMAIN daily.steps :
        /\ daily.steps[i].outcome = "rebuilt"
        /\ daily.steps[i].profile # None
        /\ daily.steps[i].profile.lastRecalculatedAt = 49
        /\ daily.hoursPassed = 2
        /\ daily.steps[i].profile.writes = 0
        /\ Len(daily.steps) = 1

(***************************************************************************)
(* CHM: the overall health score                                           *)
(*                                                                         *)
(* The five signal functions return a trend clamped to [-1, 1] or a ratio  *)
(* in [0, 1]; every division in them is guarded, so each returns a finite  *)
(* number.  The signals are in tenths.                                     *)
(***************************************************************************)

\* Math.max(-1, Math.min(1, x)) of the three trends.
TrendValues == {0 - 10, 0 - 8, 0 - 3, 0, 1, 10}
\* min / max, the 0.5 and 0.2 of computeInitiativeRatio, the clamped
\* diversity.
RatioValues == {0, 2, 5, 10}

SignalCombinations ==
    [responseLatencyTrend : TrendValues, messageLengthTrend : TrendValues,
     sentimentTrajectory : TrendValues, initiativeRatio : RatioValues,
     topicDiversity : RatioValues]

\* The weighted sum before Math.round, in twentieths.
weightedSignals(signals) ==
    25 * (signals.responseLatencyTrend + 10)
        + 20 * (signals.messageLengthTrend + 10)
        + 20 * (signals.sentimentTrajectory + 10)
        + 40 * signals.initiativeRatio
        + 30 * signals.topicDiversity

HealthInit ==
    /\ healthIn \in SignalCombinations
    /\ healthOut = None
    /\ CoreIdle /\ EarlyIdle /\ BatchIdle /\ VoiceIdle /\ DailyIdle
    /\ LastIdle

\* src/lib/algorithms/dfre.ts:894-901
ComputeOverallHealth ==
    /\ healthOut = None
    /\ healthOut' = [overallHealth |-> overallHealth(healthIn)]
    /\ UNCHANGED <<healthIn, outsideHealth>>

HealthNext == ComputeOverallHealth

SpecHealth == HealthInit /\ [][HealthNext]_vars

\* C30: for every combination of signals the signal functions can return,
\* overallHealth is an integer in [0, 100], a nearest integer of the
\* weighted sum.
C30_OverallHealthInRange ==
    healthOut # None =>
        /\ healthOut.overallHealth \in 0..100
        /\ 20 * healthOut.overallHealth <= weightedSignals(healthIn) + 10
        /\ 20 * healthOut.overallHealth >= weightedSignals(healthIn) - 10

\* Every signal at its highest gives 100.
C30_Witness ==
    /\ healthOut # None
    /\ healthIn.responseLatencyTrend = 10
    /\ healthIn.messageLengthTrend = 10
    /\ healthIn.sentimentTrajectory = 10
    /\ healthIn.initiativeRatio = 10
    /\ healthIn.topicDiversity = 10
    /\ healthOut.overallHealth = 100

\* Every signal at its lowest gives 0.
C30_WitnessLowest ==
    /\ healthOut # None
    /\ healthIn.responseLatencyTrend = 0 - 10
    /\ healthIn.messageLengthTrend = 0 - 10
    /\ healthIn.sentimentTrajectory = 0 - 10
    /\ healthIn.initiativeRatio = 0
    /\ healthIn.topicDiversity = 0
    /\ healthOut.overallHealth = 0

(***************************************************************************)
(* DFRE and RPB: a getDiscoveryFeed call beside a rebuild of its viewer.   *)
(*                                                                         *)
(* The call runs in two steps: its reads up to the end of the scoring      *)
(* (the cache lookups, the profile and user rows, the computeERS calls),   *)
(* then its cacheSet calls for feed_ranked and feed_page.  feedRun keeps,  *)
(* beside the call's position, the profile row each feed entry was         *)
(* computed from.                                                          *)
(***************************************************************************)

RaceLimit == 1

IdleFeedRun ==
    [pc |-> "idle", writes |-> EmptyCache, source |-> None,
     origin |-> EmptyCache]

rankedKey(userId) == userKey(userId, "feed_ranked")

\* The feed entries of the user in the store.
feedKeys(store, userId) ==
    {k \in DOMAIN store :
        /\ k.entity = "user" /\ k.id = <<userId>>
        /\ k.dataType \in {"feed_ranked", "feed_page"}}

\* The keys the call sets at its end: feed_ranked after a pipeline run,
\* feed_page_{n} when the page has a next cursor.
feedWrites(userId, outcome) ==
    (IF ~outcome.raised /\ outcome.served = "pipeline"
        THEN {rankedKey(userId)} ELSE {})
    \cup (IF /\ ~outcome.raised /\ outcome.served # "page_cache"
             /\ outcome.result.cursor # NoCursor
          THEN {pageKey(userId, 0)} ELSE {})

\* The store with the entries laid over it.
cacheSetAll(store, entries) ==
    [k \in DOMAIN store \cup DOMAIN entries |->
        IF k \in DOMAIN entries THEN entries[k] ELSE store[k]]

\* src/lib/algorithms/dfre.ts:374-411: the reads of the call and the
\* scoring, whose computeERS calls cache their results.
FeedBegin(userId) ==
    /\ feedRun.pc = "idle"
    /\ LET outcome == getDiscoveryFeed(cache, userId, NoCursor, RaceLimit)
           writes == feedWrites(userId, outcome)
       IN  /\ cache' = [k \in DOMAIN outcome.store \ (writes \ DOMAIN cache)
                           |-> IF k \in writes THEN cache[k]
                               ELSE outcome.store[k]]
           /\ feedRun' =
                [feedRun EXCEPT
                    !.pc = "computed",
                    !.writes = [k \in writes |-> outcome.store[k]],
                    !.source = IF outcome.served = "pipeline"
                                   THEN profiles[userId]
                               ELSE IF rankedKey(userId) \in DOMAIN feedRun.origin
                                   THEN feedRun.origin[rankedKey(userId)]
                               ELSE None]
    /\ UNCHANGED <<stateVars, chmVars, dbVars, ersOut, divVars, feedVars,
                   rpbVars, earlyVars, batch, voiceVars, daily, healthVars,
                   sched>>

\* src/lib/algorithms/dfre.ts:413-456: the cacheSet calls of the call.
FeedFinish ==
    /\ feedRun.pc = "computed"
    /\ cache' = cacheSetAll(cache, feedRun.writes)
    /\ feedRun' =
         [feedRun EXCEPT
             !.pc = "idle",
             !.writes = EmptyCache,
             !.source = None,
             !.origin = cacheSetAll(feedRun.origin,
                                    [k \in DOMAIN feedRun.writes |->
                                        feedRun.source])]
    /\ UNCHANGED <<stateVars, chmVars, dbVars, ersOut, divVars, feedVars,
                   rpbVars, earlyVars, batch, voiceVars, daily, healthVars,
                   sched>>

RaceInit ==
    /\ profiles = [u \in AllUsers |->
                      IF u \in SpecUsers THEN profileDataOf(<<3, 0>>) ELSE None]
    /\ vectors = [u \in AllUsers |->
                     IF u \in SpecUsers THEN [of |-> <<3, 0>>] ELSE None]
    /\ userRows = [u \in AllUsers |-> IF u \in SpecUsers THEN SpecUserRow
                                      ELSE None]
    /\ behaviour \in [AllUsers -> {<<3, 0>>, <<1, 1>>}]
    /\ rb = [p \in Procs |-> IdleRebuild]
    /\ cache = EmptyCache
    /\ ersOut = None
    /\ blocksReports = {}
    /\ matches = [u \in AllUsers |-> [total |-> 0, ghosted |-> 0]]
    /\ annResult = [fails |-> FALSE,
                    results |-> <<[userId |-> 1, score |-> 90],
                                  [userId |-> 2, score |-> 80]>>]
    /\ feedOut = None
    /\ feedRun = IdleFeedRun
    /\ sched = None
    /\ StateIdle /\ CHMIdle /\ DivIdle
    /\ EarlyIdle /\ BatchIdle /\ VoiceIdle /\ DailyIdle /\ HealthIdle

RaceNext ==
    \/ \E p \in Procs : RebuildStart(p, FeedViewer)
    \/ \E p \in Procs : RebuildAggregate(p)
    \/ \E p \in Procs, succeeds \in BOOLEAN : RebuildEmbed(p, succeeds)
    \/ \E p \in Procs : RebuildFind(p)
    \/ \E p \in Procs : RebuildWrite(p)
    \/ \E p \in Procs : RebuildInvalidate(p)
    \/ TrackBehaviour(FeedViewer)
    \/ FeedBegin(FeedViewer)
    \/ FeedFinish

SpecRace == RaceInit /\ [][RaceNext]_vars

\* The rebuilds of the viewer that have finished their cache invalidation.
finishedRebuilds ==
    {p \in Procs : /\ rb[p].pc = "done" /\ rb[p].invalidated
                   /\ rb[p].userId = FeedViewer}

\* The rebuilds of the viewer that are still running.
runningRebuilds ==
    {p \in Procs : rb[p].pc \notin {"idle", "done", "raised"}}

\* C33: once a rebuild of the viewer has finished its cache invalidation
\* and no other rebuild is running, every feed_ranked and feed_page entry
\* of the viewer in the cache was computed from the profile row as the
\* rebuild left it.
\* The code does not do this: a call that read the profile before the
\* rebuild wrote it caches its ranked list after the invalidation.
C33_NoStaleFeedAfterRebuild ==
    (finishedRebuilds # {} /\ runningRebuilds = {})
    => \A k \in feedKeys(cache, FeedViewer) :
          feedRun.origin[k] = profiles[FeedViewer]

\* A ranked list computed from the profile before the rebuild is in the
\* cache, written after the rebuild's invalidation had found nothing to
\* remove.
C33_StaleRankedAfterInvalidate ==
    /\ \E p \in finishedRebuilds : rb[p].removed = 0
    /\ runningRebuilds = {}
    /\ Cardinality(finishedRebuilds) = 1
    /\ rankedKey(FeedViewer) \in DOMAIN cache
    /\ feedRun.pc = "idle"
    /\ feedRun.origin[rankedKey(FeedViewer)] = profileDataOf(<<3, 0>>)
    /\ profiles[FeedViewer] = profileDataOf(<<1, 1>>)

(***************************************************************************)
(* CHM: monitorConversations, the batch under its cron schedule.           *)
(*                                                                         *)
(* The batch runs, then CronHours pass and it runs again; a run takes no   *)
(* time on this scale.  No message is sent and no pass fails.  sched holds *)
(* the hours since the first run, up to the age the rows are told apart.   *)
(***************************************************************************)

\* src/unnamed/part_017:15  cron "0 */4 * * *"
CronHours == 4

\* The age a timestamp has CronHours later; ages past MaxAgeDays stay.
olderBy(t, hours) ==
    IF t = NoTime THEN NoTime
    ELSE IF t + hours > MaxAgeDays * HoursPerDay THEN MaxAgeDays * HoursPerDay
    ELSE t + hours

\* The age of the last message at the first run modelled, in days: the
\* runs before it are those of SpecCHM.
FirstRunDays == 2

\* Conversations whose last message is FirstRunDays old, or up to CronHours
\* older, in any health state the passes before can have left, and ones
\* without a message.
SchedRows ==
    {[healthState |-> h, pendingNudge |-> Null, nudgeGeneratedAt |-> NoTime,
      lastMessageAt |-> t] :
        h \in ConversationState \ {"dormant"},
        t \in {NoTime, FirstRunDays * HoursPerDay,
               FirstRunDays * HoursPerDay + CronHours - 1}}

SchedInit ==
    /\ conv \in {rows \in [BatchConvs -> SchedRows] :
                    /\ rows["c2"].healthState = "warming"
                    /\ rows["c2"].lastMessageAt = NoTime
                    /\ rows["c3"].lastMessageAt = NoTime
                    /\ rows["c3"].healthState = "warming"}
    /\ chmOut = None
    /\ batch = IdleBatch
    /\ sched = [hours |-> 0]
    /\ feedRun = None
    /\ StateIdle /\ StoreIdle /\ ERSIdle /\ DivIdle /\ FeedIdle /\ RPBIdle
    /\ EarlyIdle /\ VoiceIdle /\ DailyIdle /\ HealthIdle

\* The time to the next run passes.
SchedWait ==
    /\ batch.pc = "returned"
    /\ batch' = IdleBatch
    /\ sched' = [hours |-> olderBy(sched.hours, CronHours)]
    /\ conv' = [c \in BatchConvs |->
                  [conv[c] EXCEPT
                      !.lastMessageAt = olderBy(@, CronHours),
                      !.nudgeGeneratedAt = olderBy(@, CronHours)]]
    /\ UNCHANGED <<chmOut, stateVars, dbVars, cache, ersOut, divVars,
                   feedVars, rpbVars, earlyVars, voiceVars, daily,
                   healthVars, feedRun>>

SchedNext ==
    \/ BatchStart
    \/ BatchAnalyze
    \/ BatchReturn
    \/ SchedWait

SpecSched == SchedInit /\ [][SchedNext]_vars /\ WF_vars(SchedNext)

\* C38: under the schedule, with passes that do not fail, a conversation
\* that has a last message and gets no further one is eventually persisted
\* as dormant.
C38_EventuallyDormant ==
    \A c \in BatchConvs :
        (conv[c].lastMessageAt # NoTime) ~> (conv[c].healthState = "dormant")

\* The run at 72 hours after the last message enumerated the conversation
\* and its pass wrote dormant.
C38_Witness ==
    /\ batch.pc = "returned"
    /\ chmOut # None /\ ~chmOut.threw
    /\ chmOut.conversationId = "c1"
    /\ chmOut.hours = 3 * HoursPerDay
    /\ chmOut.currentState # "dormant"
    /\ chmOut.newState = "dormant"
    /\ chmOut.wrote
    /\ conv["c1"].healthState = "dormant"
    /\ sched.hours = HoursPerDay

\* While a conversation's last message is 3 to 7 days old, every run that
\* has started lists it.
C38_ListedFromDay3To7 ==
    \A c \in BatchConvs :
        (/\ batch.pc \in {"loop", "returned"}
         /\ conv[c].lastMessageAt # NoTime
         /\ conv[c].lastMessageAt >= 3 * HoursPerDay
         /\ conv[c].lastMessageAt <= 7 * HoursPerDay)
        => c \in listed

====
